---- MODULE Spec2Model ----
(***************************************************************************)
(* Model of the tesla-tracker bot: the per-user store (UserDatabase), the  *)
(* authorised client (TeslaClient.request with refresh on 401 and a single *)
(* retry), the order poll cycle (check_orders_task) and the inventory      *)
(* matcher (InventoryManager.find_matches).                                *)
(*                                                                         *)
(* Every coroutine is cut at its await points: one action per stretch of   *)
(* code between two awaits.                                                *)
(***************************************************************************)
EXTENDS Integers, Sequences, FiniteSets, Bags, TLC

(***************************************************************************)
(* Bounds of the model                                                     *)
(***************************************************************************)
\* number of token pairs the token endpoint issues before it only refuses
MaxTok == 3
\* number of TeslaClient.request calls made by the stand-alone client driver
MaxCalls == 3
\* number of times the scheduler fires check_orders_task
MaxCycles == 3
\* number of changes the upstream order data goes through
MaxChanges == 2
\* number of cars in an inventory result list
MaxCars == 2
\* number of inventory cycles (inventory_job, inv_check_command) that are started
MaxRuns == 2
\* number of steps the clock makes
MaxTicks == 2
\* number of changes the inventory upstream goes through
MaxStockChanges == 1
\* number of watch dicts the handlers create
MaxWatches == 2
\* number of watch lists the handlers create
MaxLists == 2

(***************************************************************************)
(* Values                                                                  *)
(***************************************************************************)
\* Python's None, also what dict.get returns for a missing key: an integer that no
\* field of the model takes as a value (0 is a price a watch can have)
None == -1
\* the chat ids (subscribers) of the model
Chats == {"u1"}
\* the coroutines that call TeslaClient.request
Callers == {"job"}
\* the reference numbers of the orders upstream, in the order the list API returns them
RnOrder == <<"RN1", "RN2">>
RNs == {RnOrder[i] : i \in 1..Len(RnOrder)}
\* values of an order's 'vin' (None: not assigned)
Vins == {None, 1}
\* values of deliveryWindowDisplay (None: the key is missing)
Windows == {None, 1}
\* values of orderStatus, a field the diff does not look at
OrderStatuses == {"BOOKED", "DELIVERED"}
\* JSON bodies of 200 answers seen by the stand-alone client driver
Bodies == {"b1", "b2"}
\* body of an error answer
ErrBody == "err"
\* statuses the data API answers with
GetStatuses == {200, 401, 500}
\* statuses the token endpoint answers with
PostStatuses == {200, 400, 401, 500}

VARIABLES
  users,      \* UserDatabase.users: chat id -> user dict (a dict is a function on its keys)
  rq,         \* per caller: the frame of its TeslaClient.request call
  nextTok,    \* the token endpoint: number of the next token pair it issues
  calls,      \* stand-alone client driver: calls made so far
  upstream,   \* the order API: reference number -> the order's data
  changes,    \* number of changes the upstream data went through
  job,        \* per chat: the frame of check_orders_task
  cycles,     \* number of times the scheduler fired check_orders_task
  notified,   \* history: per order, the tracked fields of the last notification delivered
  dup,        \* history: a delivered notification repeated the last one of its order
  results,    \* find_matches: the result list it is given
  criteria,   \* find_matches: the watch it is given
  matches,    \* find_matches: the list it returned
  mpc,        \* find_matches: "args" before the call, "returned" after it
  wlists,     \* the watch lists (Python list objects): reference -> the watch references in it
  wobjs,      \* the watch dicts (Python dict objects): reference -> the dict
  cache,      \* InventoryManager.cache: cache key -> [timestamp, results]
  clock,      \* datetime.now().timestamp(), in seconds
  ticks,      \* number of steps the clock made
  stock,      \* the inventory API: query -> the list it answers with
  stockChanges, \* number of changes the inventory upstream went through
  ijob,       \* per inventory coroutine: the frame of its cycle
  iruns,      \* number of inventory cycles started
  prevRun,    \* history: what the cycle before the latest one fetched and sent
  lastProc,   \* history: the coroutine that ran the latest cycle
  timers,     \* the JobQueue: the bag of its jobs
  lg,         \* the frame of the login_command in flight
  wiz,        \* per chat: the conversation of the watch wizard
  lastStart,  \* history: per chat, the interval of the latest start_job since the last removal
  store       \* UserDatabase besides its map: lock (the task holding self.lock, or "free"),
              \* db and tmp (the files DB_FILE and DB_FILE + '.tmp'), sop (per task, the
              \* frame of its call of a method), boot (history: the crash before this
              \* start and what load read, until the first call)

vars == <<users, rq, nextTok, calls, upstream, changes, job, cycles, notified, dup,
          results, criteria, matches, mpc,
          wlists, wobjs, cache, clock, ticks, stock, stockChanges, ijob, iruns, prevRun,
          lastProc, timers, lg, wiz, lastStart, store>>
clientVars == <<users, rq, nextTok>>
orderVars == <<upstream, changes, job, cycles, notified, dup>>
matchVars == <<results, criteria, matches, mpc>>
\* what the stand-alone client driver, the order cycle and the matcher leave alone
cycleVars == <<cache, clock, ticks, stock, stockChanges, ijob, iruns, prevRun, lastProc>>
invVars == <<wlists, wobjs, cycleVars>>
timerVars == <<timers, lg, wiz, lastStart>>
\* what the stand-alone client driver, the order cycle, the matcher, the inventory
\* cycles and the handlers of the job queue leave alone
clientFrame == <<orderVars, matchVars, invVars, timerVars, store>>
orderFrame == <<calls, matchVars, invVars, timerVars, store>>
matchFrame == <<clientVars, calls, orderVars, invVars, timerVars, store>>
invFrame == <<rq, nextTok, calls, orderVars, matchVars, timerVars, store>>
timerFrame == <<rq, nextTok, calls, orderVars, matchVars, cycleVars, store>>
\* what the calls of the store's methods leave alone
storeFrame == <<rq, nextTok, calls, orderVars, matchVars, cycleVars, timerVars>>

(***************************************************************************)
(* UserDatabase                                                            *)
(***************************************************************************)
\* dict.update: keys of data overwrite, the other keys stay
DictUpdate(old, data) ==
  [k \in (DOMAIN old) \cup (DOMAIN data) |-> IF k \in DOMAIN data THEN data[k] ELSE old[k]]

EmptyDict == [k \in {} |-> None]

\* the None that self.users.get(chat_id) returns for a missing user (a dict no user has)
NoneUser == [is_none |-> TRUE]

\* UserDatabase.get_user: the dict of the user, or None
get_user(us, chat_id) == IF chat_id \in DOMAIN us THEN us[chat_id] ELSE NoneUser

\* Python's truth value of a user dict: None and {} are false
Falsy(user) == user = NoneUser \/ DOMAIN user = {}

\* variant: the record of the chat is replaced by the data
update_user_Replace(us, chat_id, data) ==
  [c \in (DOMAIN us) \cup {chat_id} |-> IF c = chat_id THEN data ELSE us[c]]

\* UserDatabase.update_user: create the record if missing, merge, save
update_user(us, chat_id, data) ==
  LET old == IF chat_id \in DOMAIN us THEN us[chat_id] ELSE EmptyDict
  IN  [c \in (DOMAIN us) \cup {chat_id} |->
         IF c = chat_id THEN DictUpdate(old, data) ELSE us[c]]

\* UserDatabase.delete_user
delete_user(us, chat_id) == [c \in (DOMAIN us) \ {chat_id} |-> us[c]]

(***************************************************************************)
(* TeslaClient                                                             *)
(***************************************************************************)
NoResp == [status |-> 0, body |-> "none"]
NoRet  == [kind |-> "none", status |-> 0, body |-> "none"]

\* the frame of a request call that has not started
\* site: 0 before any _refresh, 1 in the _refresh before the try block, 2 in the
\* _refresh of the 401 branch;  log: history of the exchanges of this call;
\* data: the token the endpoint has issued in an answer that is still on its way
IdleFrame ==
  [pc |-> "idle", chat_id |-> "u1", url |-> <<"none">>, site |-> 0,
   access_token |-> None, refresh_token |-> None, data |-> None,
   resp |-> NoResp, ret |-> NoRet, log |-> <<>>]

\* TeslaClient._get_token: the 'not logged in' test
LoggedIn(user) == ~Falsy(user) /\ "refresh_token" \in DOMAIN user

\* variant: the missing login is reported as an expired token
RetNotLoggedIn_AsAuthFailed == [kind |-> "auth_failed", status |-> 401, body |-> "none"]

\* raise Exception("User not logged in.")
RetNotLoggedIn == [kind |-> "not_logged_in", status |-> 0, body |-> "none"]
\* raise Exception("Auth Failed: Token Expired and Refresh Failed. Please /login again.")
RetAuthFailed == [kind |-> "auth_failed", status |-> 401, body |-> "none"]
\* an httpx.HTTPStatusError that leaves request as it is
RetHttpError(status) == [kind |-> "http_error", status |-> status, body |-> "none"]
\* return resp.json()
RetJson(resp) == [kind |-> "json", status |-> resp.status, body |-> resp.body]

\* the except clause of request: what an HTTPStatusError raised inside the try becomes
ExceptHTTPStatusError(status) ==
  IF status = 401 THEN RetAuthFailed ELSE RetHttpError(status)

\* resp.raise_for_status(); return resp.json()  -- the end of the try block
RaiseForStatusOrJson(resp) ==
  IF resp.status >= 400 THEN ExceptHTTPStatusError(resp.status) ELSE RetJson(resp)

\* request up to its first network wait: _get_token (the store's lock is free whenever
\* a coroutine asks for it, so get_user does not suspend), then either the POST of
\* _refresh (no access token) or the GET is on its way
request_call(us, chat_id, url) ==
  LET user == get_user(us, chat_id)
      f0 == [IdleFrame EXCEPT !.chat_id = chat_id, !.url = url]
  IN  IF ~LoggedIn(user)
      THEN [f0 EXCEPT !.pc = "done", !.ret = RetNotLoggedIn]
      ELSE LET at == IF "access_token" \in DOMAIN user THEN user["access_token"] ELSE None
           IN  [f0 EXCEPT !.access_token = at,
                          !.refresh_token = user["refresh_token"],
                          !.pc = IF at = None THEN "refresh" ELSE "get",
                          !.site = IF at = None THEN 1 ELSE 0]

\* variant: _refresh stores the new access token only
RefreshUpdate_AccessOnly(data) == [access_token |-> data.access_token]

\* _refresh: the dict handed to db.update_user
RefreshUpdate(data) ==
  [access_token |-> data.access_token, refresh_token |-> data.refresh_token]

\* _refresh: the token endpoint answers the POST; raise_for_status, then update_user
\* with the new pair (no suspension in between) and the GET goes out.
\* An error status raised at site 1 leaves request as it is (the call is outside the
\* try block), at site 2 it passes through the except clause.
refresh(c) ==
  /\ rq[c].pc = "refresh"
  /\ \E status \in PostStatuses :
       /\ status = 200 => nextTok <= MaxTok
       /\ LET entry == [op |-> "POST", status |-> status, token |-> rq[c].refresh_token,
                        body |-> "none", issued |-> IF status = 200 THEN nextTok ELSE None]
              data == [access_token |-> nextTok, refresh_token |-> nextTok]
          IN
          IF status = 200
          THEN /\ users' = update_user(users, rq[c].chat_id, RefreshUpdate(data))
               /\ rq' = [rq EXCEPT ![c].pc = "get",
                                   ![c].access_token = data.access_token,
                                   ![c].log = Append(@, entry)]
               /\ nextTok' = nextTok + 1
          ELSE /\ rq' = [rq EXCEPT ![c].pc = "done",
                                   ![c].ret = IF rq[c].site = 2
                                              THEN ExceptHTTPStatusError(status)
                                              ELSE RetHttpError(status),
                                   ![c].log = Append(@, entry)]
               /\ UNCHANGED <<users, nextTok>>

\* _refresh, first half of a successful exchange: the token endpoint receives the POST
\* and issues a new pair; its answer is on its way to the client
refresh_post(c) ==
  /\ rq[c].pc = "refresh"
  /\ nextTok <= MaxTok
  /\ rq' = [rq EXCEPT ![c].pc = "posted", ![c].data = nextTok]
  /\ nextTok' = nextTok + 1
  /\ UNCHANGED users

\* _refresh, second half: client.post returns the answer; update_user with the pair of
\* the answer, and the GET goes out
refresh_resp(c) ==
  /\ rq[c].pc = "posted"
  /\ LET entry == [op |-> "POST", status |-> 200, token |-> rq[c].refresh_token,
                   body |-> "none", issued |-> rq[c].data]
         data == [access_token |-> rq[c].data, refresh_token |-> rq[c].data]
     IN  /\ users' = update_user(users, rq[c].chat_id, RefreshUpdate(data))
         /\ rq' = [rq EXCEPT ![c].pc = "get",
                             ![c].access_token = data.access_token,
                             ![c].data = None,
                             ![c].log = Append(@, entry)]
  /\ UNCHANGED nextTok

\* variant: every 401 is answered by a refresh and a retry
AfterGet_RetryAlways(frame, resp) ==
  IF resp.status = 401
  THEN [frame EXCEPT !.resp = resp, !.pc = "refresh", !.site = 2]
  ELSE [frame EXCEPT !.resp = resp, !.pc = "done", !.ret = RaiseForStatusOrJson(resp)]

\* variant: every error status of the first attempt is answered by a refresh and a retry
AfterGet_RetryOnError(frame, resp) ==
  IF resp.status >= 400 /\ frame.site # 2
  THEN [frame EXCEPT !.resp = resp, !.pc = "refresh", !.site = 2]
  ELSE [frame EXCEPT !.resp = resp, !.pc = "done", !.ret = RaiseForStatusOrJson(resp)]

\* request: what it does with the answer to a GET: on the 401 of the first attempt
\* _refresh and retry; otherwise, and always for the retry, raise_for_status / return
AfterGet(frame, resp) ==
  IF resp.status = 401 /\ frame.site # 2
  THEN [frame EXCEPT !.resp = resp, !.pc = "refresh", !.site = 2]
  ELSE [frame EXCEPT !.resp = resp, !.pc = "done", !.ret = RaiseForStatusOrJson(resp)]

\* request: client.get(url, Authorization: Bearer access_token) is answered with resp
request_get(c, resp) ==
  /\ rq[c].pc = "get"
  /\ rq' = [rq EXCEPT ![c] =
              AfterGet([rq[c] EXCEPT !.log = Append(@, [op |-> "GET", status |-> resp.status,
                                                        token |-> rq[c].access_token,
                                                        body |-> resp.body, issued |-> None])],
                       resp)]
  /\ UNCHANGED <<users, nextTok>>

(***************************************************************************)
(* Stand-alone driver of TeslaClient.request                               *)
(***************************************************************************)
\* the answers the data API can give the stand-alone driver
DriverResponses ==
  {[status |-> 200, body |-> b] : b \in Bodies}
    \cup {[status |-> s, body |-> ErrBody] : s \in GetStatuses \ {200}}

\* a coroutine calls client.request('GET', url)
ClientCall(c) ==
  /\ rq[c].pc \in {"idle", "done"}
  /\ calls < MaxCalls
  /\ calls' = calls + 1
  /\ rq' = [rq EXCEPT ![c] = request_call(users, "u1", <<"orders">>)]
  /\ UNCHANGED <<users, nextTok, clientFrame>>

\* the token endpoint answers the POST of the call's _refresh
ClientRefresh(c) == refresh(c) /\ UNCHANGED <<calls, clientFrame>>

\* the data API answers the GET of the call
ClientGet(c) ==
  /\ \E resp \in DriverResponses : request_get(c, resp)
  /\ UNCHANGED <<calls, clientFrame>>

\* the token endpoint issues the pair for the POST of the call's _refresh
ClientPost(c) == refresh_post(c) /\ UNCHANGED <<calls, clientFrame>>

\* the answer with the issued pair reaches the call's _refresh
ClientResp(c) == refresh_resp(c) /\ UNCHANGED <<calls, clientFrame>>

\* the records the store can hold for the user when a call starts: logged in without
\* and with access token, a record without refresh token, an empty record
InitUserDicts ==
  { [refresh_token |-> 1, access_token |-> None, interval |-> 30],
    [refresh_token |-> 1, access_token |-> 1, interval |-> 30],
    [orders_state |-> EmptyDict],
    EmptyDict }

(***************************************************************************)
(* The order API                                                           *)
(***************************************************************************)
\* an order as the list API returns it (the summary)
Summary(rn, o) == [referenceNumber |-> rn, vin |-> o.vin, orderStatus |-> o.orderStatus]
\* the answer of the tasks API for an order (the detail payload)
Details(o) == [tasks |-> [scheduling |-> [deliveryWindowDisplay |-> o.deliveryWindowDisplay]]]

\* the reference numbers present in up, in list order
PresentRns(up) == SelectSeq(RnOrder, LAMBDA r : r \in DOMAIN up)
\* data.get('response', []) of the list API
OrderList(up) == [i \in 1..Len(PresentRns(up)) |-> Summary(PresentRns(up)[i], up[PresentRns(up)[i]])]

\* an order as it first appears upstream
BareOrder == [vin |-> None, orderStatus |-> "BOOKED", deliveryWindowDisplay |-> None]

\* the upstream data changes: an order appears, disappears, or one of its fields changes
UpstreamChange ==
  /\ changes < MaxChanges
  /\ changes' = changes + 1
  /\ \E rn \in RNs :
       IF rn \in DOMAIN upstream
       THEN \/ upstream' = [r \in (DOMAIN upstream) \ {rn} |-> upstream[r]]
            \/ \E v \in Vins \ {upstream[rn].vin} :
                 upstream' = [upstream EXCEPT ![rn].vin = v]
            \/ \E w \in Windows \ {upstream[rn].deliveryWindowDisplay} :
                 upstream' = [upstream EXCEPT ![rn].deliveryWindowDisplay = w]
            \/ \E st \in OrderStatuses \ {upstream[rn].orderStatus} :
                 upstream' = [upstream EXCEPT ![rn].orderStatus = st]
       ELSE upstream' = [r \in (DOMAIN upstream) \cup {rn} |->
                           IF r = rn THEN BareOrder ELSE upstream[r]]
  /\ UNCHANGED <<users, rq, nextTok, job, cycles, notified, dup, orderFrame>>

(***************************************************************************)
(* check_orders_task                                                       *)
(***************************************************************************)
\* the coroutine of the order job of a chat, as caller of TeslaClient.request
JobCaller(chat_id) == "job"

\* a history field that is not kept
NoHistory == [recorded |-> FALSE]

\* the frame of check_orders_task
\* attempted: history, the positions of the orders for which the sink was called
\* snap0: history, the user's 'orders_state' entry when the cycle started
\* inv0: history, where inventory_job stood when the cycle started
\* user0: history, the record of the user when the cycle started; NoHistory in the
\*        specifications that do not keep it (their initial state says so)
IdleJob ==
  [pc |-> "idle", prev_map |-> EmptyDict, curr_map |-> EmptyDict, orders |-> <<>>, i |-> 0,
   attempted |-> {}, snap0 |-> [present |-> FALSE, value |-> EmptyDict], inv0 |-> "idle",
   user0 |-> NoHistory, outcome |-> "none"]

\* the 'orders_state' entry of a chat in the store
OrdersStateOf(us, chat_id) ==
  IF chat_id \in DOMAIN us /\ "orders_state" \in DOMAIN us[chat_id]
  THEN [present |-> TRUE, value |-> us[chat_id]["orders_state"]]
  ELSE [present |-> FALSE, value |-> EmptyDict]

\* variant: the delivery window is not compared
Notify_VinOnly(prev_map, order, details) ==
  IF order.referenceNumber \notin DOMAIN prev_map
  THEN TRUE
  ELSE prev_map[order.referenceNumber].summary.vin # order.vin

\* the diff: old_data = prev_map.get(rn); notify if there is none, or if the vin or
\* the deliveryWindowDisplay differ
Notify(prev_map, order, details) ==
  IF order.referenceNumber \notin DOMAIN prev_map
  THEN TRUE
  ELSE LET old_data == prev_map[order.referenceNumber] IN
       \/ old_data.summary.vin # order.vin
       \/ old_data.details.tasks.scheduling.deliveryWindowDisplay
            # details.tasks.scheduling.deliveryWindowDisplay

\* curr_map[rn] = {'summary': order, 'details': details}
PutOrder(curr_map, order, details) ==
  [r \in (DOMAIN curr_map) \cup {order.referenceNumber} |->
     IF r = order.referenceNumber THEN [summary |-> order, details |-> details]
     ELSE curr_map[r]]

\* variant: the handler of the exception drops the stored snapshot
OnException_ClearSnapshot(us, chat_id, curr_map) ==
  update_user(us, chat_id, [orders_state |-> EmptyDict])

\* variant: the handler of the exception keeps what the cycle has collected
OnException_SavePartial(us, chat_id, curr_map) ==
  update_user(us, chat_id, [orders_state |-> curr_map])

\* except Exception as e: logger.error(...)  -- the store is left alone
OnException(us, chat_id, curr_map) == us

\* db.update_user(chat_id, {'orders_state': curr_map})
SaveState(us, chat_id, curr_map) == update_user(us, chat_id, [orders_state |-> curr_map])

\* the cycle ends in the except clause
Abort(chat_id, j, why) ==
  /\ job' = [job EXCEPT ![chat_id] = [j EXCEPT !.pc = "done", !.outcome = why]]
  /\ users' = OnException(users, chat_id, j.curr_map)
  /\ UNCHANGED <<rq, nextTok>>

\* the loop goes on: the detail request of the next order goes out, or, after the
\* last order, the snapshot is saved and the cycle is over
Advance(chat_id, j) ==
  IF j.i < Len(j.orders)
  THEN /\ job' = [job EXCEPT ![chat_id] = [j EXCEPT !.i = j.i + 1, !.pc = "get_order_details"]]
       /\ rq' = [rq EXCEPT ![JobCaller(chat_id)] =
                   request_call(users, chat_id, <<"tasks", j.orders[j.i + 1].referenceNumber>>)]
       /\ UNCHANGED <<users, nextTok>>
  ELSE /\ job' = [job EXCEPT ![chat_id] = [j EXCEPT !.pc = "done", !.outcome = "saved"]]
       /\ users' = SaveState(users, chat_id, j.curr_map)
       /\ UNCHANGED <<rq, nextTok>>

\* the scheduler fires the job: get_user, and client.get_orders() is on its way
check_orders_task(chat_id) ==
  /\ job[chat_id].pc \in {"idle", "done"}
  /\ cycles < MaxCycles
  /\ cycles' = cycles + 1
  /\ LET user == get_user(users, chat_id)
         user0 == IF job[chat_id].user0 = NoHistory THEN NoHistory ELSE user
     IN
       IF Falsy(user)
       THEN /\ job' = [job EXCEPT ![chat_id] = [IdleJob EXCEPT !.pc = "done", !.outcome = "no_user",
                                                              !.snap0 = OrdersStateOf(users, chat_id),
                                                              !.inv0 = ijob["inventory_job"].pc,
                                                              !.user0 = user0]]
            /\ UNCHANGED rq
       ELSE /\ job' = [job EXCEPT ![chat_id] =
                         [IdleJob EXCEPT !.pc = "get_orders",
                                         !.prev_map = OrdersStateOf(users, chat_id).value,
                                         !.snap0 = OrdersStateOf(users, chat_id),
                                         !.inv0 = ijob["inventory_job"].pc,
                                         !.user0 = user0]]
            /\ rq' = [rq EXCEPT ![JobCaller(chat_id)] = request_call(users, chat_id, <<"orders">>)]
  /\ UNCHANGED <<users, nextTok, upstream, changes, notified, dup, orderFrame>>

\* the request of the job is in its _refresh
JobRefresh(chat_id) ==
  /\ job[chat_id].pc \in {"get_orders", "get_order_details"}
  /\ refresh(JobCaller(chat_id))
  /\ UNCHANGED <<orderVars, orderFrame>>

\* the data API answers the GET of the job's request: the list, the detail payload of
\* the order, or an error status (an order that is gone upstream has no 200 answer)
JobGet(chat_id) ==
  /\ job[chat_id].pc \in {"get_orders", "get_order_details"}
  /\ LET c == JobCaller(chat_id)
         url == rq[c].url
     IN \/ \E s \in GetStatuses \ {200} : request_get(c, [status |-> s, body |-> ErrBody])
        \/ /\ url[1] = "orders"
           /\ request_get(c, [status |-> 200, body |-> OrderList(upstream)])
        \/ /\ url[1] = "tasks"
           /\ url[2] \in DOMAIN upstream
           /\ request_get(c, [status |-> 200, body |-> Details(upstream[url[2]])])
  /\ UNCHANGED <<orderVars, orderFrame>>

\* client.get_orders() returned or raised
orders_fetched(chat_id) ==
  /\ job[chat_id].pc = "get_orders"
  /\ rq[JobCaller(chat_id)].pc = "done"
  /\ LET ret == rq[JobCaller(chat_id)].ret
         j == job[chat_id]
     IN IF ret.kind # "json"
        THEN Abort(chat_id, j, "get_orders_failed")
        ELSE Advance(chat_id, [j EXCEPT !.orders = ret.body])
  /\ UNCHANGED <<upstream, changes, cycles, notified, dup, orderFrame>>

\* client.get_order_details(rn) returned or raised; curr_map entry, diff, and the
\* photo goes out if the order is new or changed
details_fetched(chat_id) ==
  /\ job[chat_id].pc = "get_order_details"
  /\ rq[JobCaller(chat_id)].pc = "done"
  /\ LET ret == rq[JobCaller(chat_id)].ret
         j == job[chat_id]
         order == j.orders[j.i]
     IN IF ret.kind # "json"
        THEN Abort(chat_id, j, "details_failed")
        ELSE LET j2 == [j EXCEPT !.curr_map = PutOrder(j.curr_map, order, ret.body)] IN
             IF Notify(j.prev_map, order, ret.body)
             THEN /\ job' = [job EXCEPT ![chat_id] =
                               [j2 EXCEPT !.pc = "send_photo", !.attempted = @ \cup {j.i}]]
                  /\ UNCHANGED <<users, rq, nextTok>>
             ELSE Advance(chat_id, j2)
  /\ UNCHANGED <<upstream, changes, cycles, notified, dup, orderFrame>>

\* the sink has delivered the message about the order at position j.i
Delivered(j) ==
  LET order == j.orders[j.i]
      rn == order.referenceNumber
      dw == j.curr_map[rn].details.tasks.scheduling.deliveryWindowDisplay
      now == [seen |-> TRUE, vin |-> order.vin, deliveryWindowDisplay |-> dw]
  IN /\ notified' = [notified EXCEPT ![rn] = now]
     /\ dup' = (dup \/ notified[rn] = now)

\* context.bot.send_photo returned or raised
send_photo(chat_id) ==
  /\ job[chat_id].pc = "send_photo"
  /\ \/ /\ Delivered(job[chat_id])
        /\ Advance(chat_id, job[chat_id])
     \/ /\ job' = [job EXCEPT ![chat_id].pc = "send_message"]
        /\ UNCHANGED <<users, rq, nextTok, notified, dup>>
  /\ UNCHANGED <<upstream, changes, cycles, orderFrame>>

\* context.bot.send_message (the fallback) returned or raised
send_message(chat_id) ==
  /\ job[chat_id].pc = "send_message"
  /\ \/ /\ Delivered(job[chat_id])
        /\ Advance(chat_id, job[chat_id])
     \/ /\ Abort(chat_id, job[chat_id], "send_failed")
        /\ UNCHANGED <<notified, dup>>
  /\ UNCHANGED <<upstream, changes, cycles, orderFrame>>

(***************************************************************************)
(* InventoryManager.find_matches                                           *)
(***************************************************************************)
\* d.get(key, default)
DictGetOr(d, key, default) == IF key \in DOMAIN d THEN d[key] ELSE default

\* the category of the per-model table (OPTION_CODES_DATA["my"]) that lists the code;
\* a code the table does not list is a family of its own
Family(code) ==
  CASE code \in {"$CPF0", "$MTY41", "$MTY47", "$MTY52"} -> "Other"
    [] code \in {"$PBSB", "$PPSW"} -> "Paint"
    [] code \in {"$WY19P", "$WY20A"} -> "Wheels"
    [] OTHER -> code

\* price = car.get('OnTheRoadPrice', car.get('Price', 999999))
CarPrice(car) == DictGetOr(car, "OnTheRoadPrice", DictGetOr(car, "Price", 999999))

\* car_options: the keys of OptionCodeMap, or OptionCodeList when there are none
CarOptions(car) ==
  IF DictGetOr(car, "OptionCodeMap", {}) # {}
  THEN car["OptionCodeMap"]
  ELSE DictGetOr(car, "OptionCodeList", {})

\* variant: the comparison with the ceiling is not strict
PriceRejects_Exclusive(car, crit) ==
  LET max_price == DictGetOr(crit, "price", None)
  IN  max_price # None /\ max_price # 0 /\ CarPrice(car) >= max_price

\* variant: the price check is left out
PriceRejects_Never(car, crit) == FALSE

\* max_price = criteria.get('price'); `if max_price and price > max_price: continue`
PriceRejects(car, crit) ==
  LET max_price == DictGetOr(crit, "price", None)
  IN  max_price # None /\ max_price # 0 /\ CarPrice(car) > max_price

\* variant: only the codes the category table lists are required
OptionsReject_KnownOnly(car, crit) ==
  LET required_options == DictGetOr(crit, "options", <<>>)
  IN  /\ required_options # <<>>
      /\ ~(\A k \in 1..Len(required_options) :
             Family(required_options[k]) = required_options[k]
               \/ required_options[k] \in CarOptions(car))

\* `if required_options: if not all(opt in car_options for opt in required_options)`
OptionsReject(car, crit) ==
  LET required_options == DictGetOr(crit, "options", <<>>)
  IN  /\ required_options # <<>>
      /\ ~(\A k \in 1..Len(required_options) : required_options[k] \in CarOptions(car))

\* the loop body: the car is appended unless a check says continue
Keeps(car, crit) == ~PriceRejects(car, crit) /\ ~OptionsReject(car, crit)

\* InventoryManager.find_matches
find_matches(res, crit) == SelectSeq(res, LAMBDA car : Keeps(car, crit))

\* the cars of the result lists
CarPool ==
  { [VIN |-> v, Price |-> p, OptionCodeList |-> o] :
      v \in {"1", "2"}, p \in {40000, 40001},
      o \in { {"$MTY41", "$PPSW", "$WY19P", "$CPF0"},
              {"$MTY47", "$PBSB", "$WY20A", "$CPF0"},
              {"$MTY52", "$PPSW", "$WY19P", "$CPF0"} } }
    \cup { [VIN |-> "3", OnTheRoadPrice |-> 40000, Price |-> 39000,
            OptionCodeMap |-> {"$MTY41", "$PBSB"}, OptionCodeList |-> {}],
           [VIN |-> "3", OptionCodeList |-> {}],
           [VIN |-> "4", Price |-> 40000, OptionCodeList |-> {"$MTY41", "$NON_EXISTENT"}] }

\* the option lists of the watches
OptionLists ==
  { <<>>, <<"$MTY41">>, <<"$MTY41", "$MTY47">>, <<"$MTY41", "$PPSW", "$PBSB">>,
    <<"$MTY41", "$CPF0">>, <<"$MTY52", "$CPF0">>, <<"$MTY41", "$NON_EXISTENT">> }

\* the watches
CriteriaPool ==
  { [options |-> o] : o \in OptionLists }
    \cup { [options |-> o, price |-> p] : o \in OptionLists, p \in {None, 40000} }
    \cup { [price |-> 40000], [options |-> <<>>, price |-> 0] }

\* the result lists: up to MaxCars cars
ResultLists == UNION { [1..n -> CarPool] : n \in 0..MaxCars }

\* the matcher is called
FindMatches ==
  /\ mpc = "args"
  /\ matches' = find_matches(results, criteria)
  /\ mpc' = "returned"
  /\ UNCHANGED <<results, criteria, matchFrame>>

(***************************************************************************)
(* InventoryManager.check_inventory and the inventory cycle                *)
(* (inventory_job, inv_check_command)                                      *)
(*                                                                         *)
(* The watch list of a user and the watch dicts in it are Python objects   *)
(* that the store and a running cycle share: users[c].watches is a         *)
(* reference into wlists, whose elements are references into wobjs.        *)
(***************************************************************************)
\* InventoryManager.cache_ttl, in seconds
cache_ttl == 300

\* the coroutines that run an inventory cycle
InvProcs == {"inventory_job", "inv_check_command"}

\* Python's None as a member of a collection of VIN strings
NoVin == "None"

\* car.get('VIN')
VinOf(car) == DictGetOr(car, "VIN", NoVin)

\* the cars the inventory API lists
CarA == [VIN |-> "A", Price |-> 40000, OptionCodeList |-> {"$MTY41"}]
CarB == [VIN |-> "B", Price |-> 45000, OptionCodeList |-> {"$MTY41"}]
CarNoVin == [Price |-> 40000, OptionCodeList |-> {"$MTY41"}]

\* the result lists the inventory API answers with
StockLists == { <<CarA>>, <<CarNoVin>>, <<CarA, CarB>> }

\* a watch as save_watch stores it, a second one with the same market, model and
\* condition, and one as legacy_inv_watch stores it from `model=my trim=LR`
WatchPool ==
  << [id |-> "w1", model |-> "my", market |-> "ES", price |-> None, condition |-> "new",
      options |-> <<>>],
     [id |-> "w2", model |-> "my", market |-> "ES", price |-> 40000, condition |-> "new",
      options |-> <<"$MTY41">>],
     [id |-> "w3", model |-> "my", trim |-> "LR"] >>

\* cache_key = f"{market}_{model}_{condition}_{criteria.get('trim','all')}"
CacheKey(crit) ==
  DictGetOr(crit, "market", "ES") \o "_" \o DictGetOr(crit, "model", "my") \o "_"
    \o DictGetOr(crit, "condition", "new") \o "_" \o DictGetOr(crit, "trim", "all")

\* what of the watch goes into query_payload: market, model, condition and the TRIM option
Query(crit) ==
  [market |-> DictGetOr(crit, "market", "ES"), model |-> DictGetOr(crit, "model", "my"),
   condition |-> DictGetOr(crit, "condition", "new"),
   options |-> IF "trim" \in DOMAIN crit THEN <<crit["trim"]>> ELSE <<>>]

\* the queries the watches of the model make
Queries == {Query(WatchPool[n]) : n \in 1..Len(WatchPool)}

\* variant: an entry is still used when it is exactly cache_ttl seconds old
CacheFresh_Inclusive(ca, key, t) ==
  key \in DOMAIN ca /\ (t - ca[key].timestamp) <= cache_ttl

\* `if cache_key in self.cache` and `(now - entry['timestamp']) < self.cache_ttl`
CacheFresh(ca, key, t) ==
  key \in DOMAIN ca /\ (t - ca[key].timestamp) < cache_ttl

\* self.cache[cache_key] = {"timestamp": ..., "results": results}
CachePut(ca, key, t, res) ==
  [k \in (DOMAIN ca) \cup {key} |->
     IF k = key THEN [timestamp |-> t, results |-> res] ELSE ca[k]]

\* variant: a failed fetch is cached as an empty list
CacheAfterFetch_CacheFailure(ca, key, t, fetch, res) == CachePut(ca, key, t, res)

\* the cache after the answer: written on status 200 only
CacheAfterFetch(ca, key, t, fetch, res) ==
  IF fetch = "ok" THEN CachePut(ca, key, t, res) ELSE ca

\* what check_inventory returns after the answer: the results on status 200, [] otherwise
FetchReturn(fetch, res) == IF fetch = "ok" THEN res ELSE <<>>

\* the frame of an inventory cycle that is not running
IdleInv ==
  [pc |-> "idle", chat_id |-> "u1", watches |-> 0, w |-> 0, key |-> "none",
   query |-> Query(EmptyDict), new_matches |-> <<>>, k |-> 0, seen_vins |-> {},
   got |-> <<>>, sent |-> <<>>, outcome |-> "none"]

\* variant: a notified car is not added to the seen set
SeenAdd_Forget(seen, car) == seen

\* seen_vins.add(car.get('VIN'))
SeenAdd(seen, car) == seen \cup {VinOf(car)}

\* new_matches = [m for m in matches if m.get('VIN') not in seen_vins]
NewMatches(res, crit) ==
  LET seen_vins == DictGetOr(crit, "seen_vins", {})
  IN  SelectSeq(find_matches(res, crit), LAMBDA m : VinOf(m) \notin seen_vins)

RECURSIVE RunLoop(_, _, _)
RECURSIVE AfterCheck(_, _, _)

\* `for watch in watches:` from the watch at position f.w up to the next await: the
\* call of check_inventory answers from the cache without suspending, or issues a GET
RunLoop(f, wo, ca) ==
  IF f.w > Len(wlists[f.watches])
  THEN [f EXCEPT !.pc = "loop_end"]
  ELSE LET crit == wo[wlists[f.watches][f.w]]
           key == CacheKey(crit)
           hit == CacheFresh(ca, key, clock)
           entry == [key |-> key, at |-> clock, had_entry |-> key \in DOMAIN ca,
                     entry_ts |-> IF key \in DOMAIN ca THEN ca[key].timestamp ELSE 0,
                     cached |-> IF key \in DOMAIN ca THEN ca[key].results ELSE <<>>,
                     fetch |-> IF hit THEN "none" ELSE "pending",
                     results |-> IF hit THEN ca[key].results ELSE <<>>]
           g == [f EXCEPT !.key = key, !.query = Query(crit),
                          !.got = Append(@, entry), !.sent = Append(@, <<>>)]
       IN  IF hit THEN AfterCheck(g, wo, ca) ELSE [g EXCEPT !.pc = "fetch"]

\* the loop body after check_inventory returned: find_matches, the seen filter, and
\* either the first send or the next watch
AfterCheck(f, wo, ca) ==
  LET crit == wo[wlists[f.watches][f.w]]
      new_matches == NewMatches(f.got[f.w].results, crit)
  IN  IF new_matches # <<>>
      THEN [f EXCEPT !.pc = "send", !.new_matches = new_matches, !.k = 1,
                     !.seen_vins = DictGetOr(crit, "seen_vins", {})]
      ELSE RunLoop([f EXCEPT !.w = @ + 1], wo, ca)

\* what a finished cycle leaves for the comparison with the next one
RunSummary(f) ==
  [ok |-> f.outcome \in {"completed", "final_reply_failed"},
   got |-> [i \in 1..Len(f.got) |-> f.got[i].results],
   sent |-> f.sent]

\* the cycle has advanced to frame g with the watch dicts wo, the cache ca and the store
\* us; after the loop inventory_job is over, inv_check_command stores the list and replies
Settle(p, g, wo, ca, us) ==
  /\ wobjs' = wo
  /\ cache' = ca
  /\ IF g.pc # "loop_end"
     THEN /\ ijob' = [ijob EXCEPT ![p] = g]
          /\ users' = us
     ELSE IF p = "inventory_job"
          THEN /\ ijob' = [ijob EXCEPT ![p] = [g EXCEPT !.pc = "done", !.outcome = "completed"]]
               /\ users' = us
          ELSE /\ ijob' = [ijob EXCEPT ![p] = [g EXCEPT !.pc = "reply_done"]]
               /\ users' = update_user(us, g.chat_id, [watches |-> g.watches])

\* the cycle is over without having entered the loop, or by an exception
InvOver(p, f, outcome) ==
  /\ ijob' = [ijob EXCEPT ![p] = [f EXCEPT !.pc = "done", !.outcome = outcome]]
  /\ UNCHANGED <<users, wobjs, cache>>

\* no inventory cycle is running
NoCycleRunning == \A q \in InvProcs : ijob[q].pc \in {"idle", "done"}

\* user = get_user(chat_id); watches = user.get('watches', []); `if not watches: return`;
\* then the loop
EnterLoop(p, chat_id) ==
  LET user == get_user(users, chat_id)
      f0 == [IdleInv EXCEPT !.chat_id = chat_id]
  IN  IF user = NoneUser
      THEN InvOver(p, f0, "no_user")
      ELSE IF "watches" \notin DOMAIN user \/ wlists[user["watches"]] = <<>>
           THEN InvOver(p, f0, "no_watches")
           ELSE Settle(p, RunLoop([f0 EXCEPT !.watches = user["watches"], !.w = 1],
                                  wobjs, cache),
                       wobjs, cache, users)

\* the scheduler fires inventory_job for the chat
inventory_job(chat_id) ==
  /\ NoCycleRunning
  /\ iruns < MaxRuns
  /\ iruns' = iruns + 1
  /\ prevRun' = RunSummary(ijob[lastProc])
  /\ lastProc' = "inventory_job"
  /\ EnterLoop("inventory_job", chat_id)
  /\ UNCHANGED <<wlists, clock, ticks, stock, stockChanges, invFrame>>

\* /inv_check: check_auth, then the first reply is awaited
inv_check_command(chat_id) ==
  /\ NoCycleRunning
  /\ iruns < MaxRuns
  /\ iruns' = iruns + 1
  /\ prevRun' = RunSummary(ijob[lastProc])
  /\ lastProc' = "inv_check_command"
  /\ LET user == get_user(users, chat_id)
         f0 == [IdleInv EXCEPT !.chat_id = chat_id]
     IN  IF Falsy(user) \/ "refresh_token" \notin DOMAIN user
         THEN InvOver("inv_check_command", f0, "not_authorized")
         ELSE /\ ijob' = [ijob EXCEPT !["inv_check_command"] = [f0 EXCEPT !.pc = "reply_start"]]
              /\ UNCHANGED <<users, wobjs, cache>>
  /\ UNCHANGED <<wlists, clock, ticks, stock, stockChanges, invFrame>>

\* the first reply of inv_check_command was delivered, or failed
inv_check_started ==
  LET p == "inv_check_command" IN
  /\ ijob[p].pc = "reply_start"
  /\ \/ EnterLoop(p, ijob[p].chat_id)
     \/ InvOver(p, ijob[p], "reply_failed")
  /\ UNCHANGED <<wlists, clock, ticks, stock, stockChanges, iruns, prevRun, lastProc, invFrame>>

\* the inventory API answers the GET of check_inventory: 200 with the list, an error
\* status, or the request raises (network error, timeout)
inventory_fetched(p) ==
  /\ ijob[p].pc = "fetch"
  /\ \E fetch \in {"ok", "http_error", "exception"} :
       LET f == ijob[p]
           res == stock[f.query]
           g == [f EXCEPT !.got[f.w].fetch = IF fetch = "ok" THEN "ok" ELSE "failed",
                          !.got[f.w].results = FetchReturn(fetch, res)]
           ca == CacheAfterFetch(cache, f.key, clock, fetch, FetchReturn(fetch, res))
       IN  Settle(p, AfterCheck(g, wobjs, ca), wobjs, ca, users)
  /\ UNCHANGED <<wlists, clock, ticks, stock, stockChanges, iruns, prevRun, lastProc, invFrame>>

\* the sink answers the send of new_matches[k]: delivered, or the send raises and the
\* exception leaves the cycle; after the last car of the watch the seen set is put
\* into the watch dict, inventory_job stores the list, and the loop goes on
inventory_sent(p) ==
  /\ ijob[p].pc = "send"
  /\ LET f == ijob[p]
         car == f.new_matches[f.k]
         seen_vins == SeenAdd(f.seen_vins, car)
         g == [f EXCEPT !.sent[f.w] = Append(@, car), !.seen_vins = seen_vins]
         wo == [wobjs EXCEPT ![wlists[f.watches][f.w]] =
                  DictUpdate(@, [seen_vins |-> seen_vins])]
         us == IF p = "inventory_job"
               THEN update_user(users, f.chat_id, [watches |-> f.watches])
               ELSE users
     IN  \/ IF f.k < Len(f.new_matches)
            THEN /\ ijob' = [ijob EXCEPT ![p] = [g EXCEPT !.k = @ + 1]]
                 /\ UNCHANGED <<users, wobjs, cache>>
            ELSE Settle(p, RunLoop([g EXCEPT !.w = @ + 1], wo, cache), wo, cache, us)
         \/ InvOver(p, f, "send_failed")
  /\ UNCHANGED <<wlists, clock, ticks, stock, stockChanges, iruns, prevRun, lastProc, invFrame>>

\* the last reply of inv_check_command was delivered, or failed
inv_check_replied ==
  LET p == "inv_check_command" IN
  /\ ijob[p].pc = "reply_done"
  /\ \/ InvOver(p, ijob[p], "completed")
     \/ InvOver(p, ijob[p], "final_reply_failed")
  /\ UNCHANGED <<wlists, clock, ticks, stock, stockChanges, iruns, prevRun, lastProc, invFrame>>

\* the steps by which the clock of the model advances
TickSteps == {1, cache_ttl - 1}

\* time passes
Tick ==
  /\ ticks < MaxTicks
  /\ \E d \in TickSteps : clock' = clock + d
  /\ ticks' = ticks + 1
  /\ UNCHANGED <<users, wlists, wobjs, cache, stock, stockChanges, ijob, iruns, prevRun,
                 lastProc, invFrame>>

\* between two cycles the time to live of a cache entry passes
TickTtl ==
  /\ NoCycleRunning
  /\ ticks < MaxTicks
  /\ clock' = clock + cache_ttl
  /\ ticks' = ticks + 1
  /\ UNCHANGED <<users, wlists, wobjs, cache, stock, stockChanges, ijob, iruns, prevRun,
                 lastProc, invFrame>>

\* between two cycles the inventory upstream changes what it lists
StockChange ==
  /\ NoCycleRunning
  /\ stockChanges < MaxStockChanges
  /\ \E l \in StockLists :
       /\ \E q \in Queries : l # stock[q]
       /\ stock' = [q \in Queries |-> l]
  /\ stockChanges' = stockChanges + 1
  /\ UNCHANGED <<users, wlists, wobjs, cache, clock, ticks, ijob, iruns, prevRun, lastProc,
                 invFrame>>

(***************************************************************************)
(* The job queue: start_job, start_inventory_job and the handlers that     *)
(* call them (login_command, logout_command, interval_command, the watch   *)
(* wizard, post_init).  The application handles one update at a time, so   *)
(* a handler starts only when no other handler is in flight.               *)
(***************************************************************************)
\* the chats that talk to the bot
Subscribers == {"u1", "u2"}

\* str(chat_id): the chat ids of the model are written as the store writes its keys
Str(chat_id) == chat_id

\* the name of the inventory timer: f"inv_{chat_id}"
InvName(chat_id) == "inv_" \o Str(chat_id)

\* queue.get_jobs_by_name(name)
get_jobs_by_name(queue, name) ==
  [j \in {x \in DOMAIN queue : x.name = name} |-> queue[j]]

\* `for j in jobs: j.schedule_removal()` for the jobs of that name
RemoveJobs(queue, name) ==
  [j \in {x \in DOMAIN queue : x.name # name} |-> queue[j]]

\* queue.run_repeating(callback, interval=..., first=10, chat_id=..., name=...)
run_repeating(queue, callback, interval, chat_id, name) ==
  queue (+) SetToBag({[callback |-> callback, interval |-> interval, first |-> 10,
                       chat_id |-> chat_id, name |-> name]})

\* variant: the existing jobs of the name are left in the queue
start_job_NoRemoval(queue, chat_id, interval_seconds) ==
  run_repeating(queue, "check_orders_task", interval_seconds, chat_id, Str(chat_id))

\* variant: the jobs of the inventory name are removed as well
start_job_RemovesBoth(queue, chat_id, interval_seconds) ==
  run_repeating(RemoveJobs(RemoveJobs(queue, Str(chat_id)), InvName(chat_id)),
                "check_orders_task", interval_seconds, chat_id, Str(chat_id))

\* start_job
start_job(queue, chat_id, interval_seconds) ==
  run_repeating(RemoveJobs(queue, Str(chat_id)),
                "check_orders_task", interval_seconds, chat_id, Str(chat_id))

\* start_inventory_job: a job is added only when the name has none
start_inventory_job(queue, chat_id) ==
  IF get_jobs_by_name(queue, InvName(chat_id)) = EmptyBag
  THEN run_repeating(queue, "inventory_job", 600, chat_id, InvName(chat_id))
  ELSE queue

\* check_auth lets the handler run
Authorized(us, chat_id) == LoggedIn(get_user(us, chat_id))

\* u_data.get('watches') is true: the key is there and the list is not empty
HasWatches(user) == "watches" \in DOMAIN user /\ wlists[user["watches"]] # <<>>

\* the tokens str(uuid.uuid4())[:8] can be: nothing keeps uuid4 from a token it has
\* returned before
WatchIds == {"w" \o ToString(n) : n \in 1 .. MaxWatches}

\* the watch id add_watch makes up in the specifications that do not look at the ids:
\* the next unused token
NewWatchId == "w" \o ToString(Len(wobjs) + 1)

\* what the wizard has collected when the user presses save
CfgPool ==
  { [model |-> "my", market |-> "ES", condition |-> "new", options |-> <<>>, price |-> 40000] }

\* save_watch: the dict it stores, built from watch_config
SaveCriteria(cfg) ==
  [model |-> cfg.model, market |-> cfg.market, price |-> cfg.price,
   condition |-> cfg.condition, options |-> cfg.options]

\* UserDatabase.add_watch: nothing without a record; else the list is created if
\* missing, the watch gets its id and is appended to the list in place
add_watch_id(chat_id, crit, watch_id) ==
  LET user == get_user(users, chat_id) IN
  IF Falsy(user)
  THEN UNCHANGED <<users, wlists, wobjs>>
  ELSE LET fresh == "watches" \notin DOMAIN user
           ref == IF fresh THEN Len(wlists) + 1 ELSE user["watches"]
           wl == IF fresh THEN Append(wlists, <<>>) ELSE wlists
       IN  /\ wobjs' = Append(wobjs, DictUpdate(crit, [id |-> watch_id]))
           /\ wlists' = [wl EXCEPT ![ref] = Append(@, Len(wobjs) + 1)]
           /\ users' = IF fresh THEN update_user(users, chat_id, [watches |-> ref]) ELSE users

\* add_watch with the token taken as unused
add_watch(chat_id, crit) == add_watch_id(chat_id, crit, NewWatchId)

\* remove_watch finds the watch: the new list is shorter
RemoveHits(chat_id, watch_id) ==
  LET user == get_user(users, chat_id)
  IN  /\ ~Falsy(user)
      /\ "watches" \in DOMAIN user
      /\ \E i \in 1 .. Len(wlists[user["watches"]]) :
           wobjs[wlists[user["watches"]][i]]["id"] = watch_id

\* UserDatabase.remove_watch up to its save: nothing without a record or a list; else
\* the record gets a new list without the watches of that id
remove_watch(chat_id, watch_id) ==
  LET user == get_user(users, chat_id) IN
  IF Falsy(user) \/ "watches" \notin DOMAIN user
  THEN UNCHANGED <<users, wlists, wobjs>>
  ELSE LET kept == SelectSeq(wlists[user["watches"]], LAMBDA r : wobjs[r]["id"] # watch_id)
       IN  /\ wlists' = Append(wlists, kept)
           /\ users' = [users EXCEPT ![chat_id] = DictUpdate(@, [watches |-> Len(wlists) + 1])]
           /\ UNCHANGED wobjs

\* the handler in flight, if any
\* reply: the last reply of /interval and /inv_watch key=value, in the specifications
\*        that keep it (their initial state has a text in it)
IdleHandler == [pc |-> "idle", chat_id |-> "u1", reply |-> NoHistory]

\* the handler of the chat has replied (or, with "raised", has ended by an exception
\* before its reply) and is over
Replied(chat_id, text) ==
  IF lg.reply = NoHistory THEN IdleHandler
  ELSE [IdleHandler EXCEPT !.chat_id = chat_id, !.reply = [text |-> text]]

\* the same for a handler that was given a watch id
RepliedAbout(chat_id, text, watch_id) ==
  IF lg.reply = NoHistory THEN IdleHandler
  ELSE [IdleHandler EXCEPT !.chat_id = chat_id, !.reply = [text |-> text, id |-> watch_id]]

\* the wizard of a chat: not running, configuring a new watch, or editing the watch `id`
NoWizard == [state |-> "none", id |-> "none"]

\* /login <token>: the first reply, then the record is stored and get_orders is awaited
\* (user0: history, the record of the chat when the handler started)
login_command(chat_id) ==
  /\ lg.pc \in {"idle", "booted"}
  /\ users' = update_user(users, chat_id,
                          [refresh_token |-> 1, access_token |-> None, interval |-> 30])
  /\ lg' = [pc |-> "get_orders", chat_id |-> chat_id, user0 |-> get_user(users, chat_id)]
  /\ UNCHANGED <<timers, wiz, lastStart, wlists, wobjs, timerFrame>>

\* get_orders returned (the first request refreshed the pair), or raised: the except
\* clause deletes the record
login_orders ==
  /\ lg.pc = "get_orders"
  /\ \/ /\ users' = update_user(users, lg.chat_id,
                                RefreshUpdate([access_token |-> 2, refresh_token |-> 2]))
        /\ lg' = [lg EXCEPT !.pc = "edit_text"]
     \/ /\ users' = delete_user(users, lg.chat_id)
        /\ lg' = IdleHandler
  /\ UNCHANGED <<timers, wiz, lastStart, wlists, wobjs, timerFrame>>

\* the status message was edited and start_job is called, or the edit raised: the
\* except clause deletes the record
login_edited ==
  /\ lg.pc = "edit_text"
  /\ \/ /\ timers' = start_job(timers, lg.chat_id, 30 * 60)
        /\ lastStart' = [lastStart EXCEPT ![lg.chat_id] = 30 * 60]
        /\ UNCHANGED users
     \/ /\ users' = delete_user(users, lg.chat_id)
        /\ UNCHANGED <<timers, lastStart>>
  /\ lg' = IdleHandler
  /\ UNCHANGED <<wiz, wlists, wobjs, timerFrame>>

\* /logout: the record is deleted and the jobs of both names are removed; then the
\* reply is awaited
logout_command(chat_id) ==
  /\ lg.pc \in {"idle", "booted"}
  /\ Authorized(users, chat_id)
  /\ users' = delete_user(users, chat_id)
  /\ timers' = RemoveJobs(RemoveJobs(timers, Str(chat_id)), InvName(chat_id))
  /\ lastStart' = [lastStart EXCEPT ![chat_id] = None]
  /\ lg' = [pc |-> "logout_reply", chat_id |-> chat_id]
  /\ UNCHANGED <<wiz, wlists, wobjs, timerFrame>>

\* the reply of /logout was delivered, or raised: logout_command is over
logout_replied ==
  /\ lg.pc = "logout_reply"
  /\ lg' = IdleHandler
  /\ UNCHANGED <<users, timers, wiz, lastStart, wlists, wobjs, timerFrame>>

\* the arguments of /interval: none or not a number, a number of minutes, or a string
\* of digits that int() does not take (isdigit is true of it, minutes is None)
IntervalArgs ==
  { [isdigit |-> FALSE, minutes |-> 0], [isdigit |-> TRUE, minutes |-> None] }
    \cup { [isdigit |-> TRUE, minutes |-> n] : n \in {4, 60} }

\* variant: no minimum, every number of minutes is stored
interval_command_NoMinimum(chat_id) ==
  /\ lg.pc \in {"idle", "booted"}
  /\ Authorized(users, chat_id)
  /\ \E arg \in IntervalArgs :
       IF ~arg.isdigit \/ arg.minutes = None
       THEN /\ lg' = Replied(chat_id, IF ~arg.isdigit THEN "usage" ELSE "raised")
            /\ UNCHANGED <<users, timers, lastStart>>
       ELSE /\ users' = update_user(users, chat_id, [interval |-> arg.minutes])
            /\ timers' = start_job(timers, chat_id, arg.minutes * 60)
            /\ lastStart' = [lastStart EXCEPT ![chat_id] = arg.minutes * 60]
            /\ lg' = Replied(chat_id, "set")
  /\ UNCHANGED <<wiz, wlists, wobjs, timerFrame>>

\* /interval <minutes>: the usage reply, int() raising, or the reply about the minimum
\* end the handler; else the interval is stored and the order job started anew
interval_command(chat_id) ==
  /\ lg.pc \in {"idle", "booted"}
  /\ Authorized(users, chat_id)
  /\ \E arg \in IntervalArgs :
       IF ~arg.isdigit \/ arg.minutes = None \/ arg.minutes < 5
       THEN /\ lg' = Replied(chat_id, IF ~arg.isdigit THEN "usage"
                                      ELSE IF arg.minutes = None THEN "raised" ELSE "minimum")
            /\ UNCHANGED <<users, timers, lastStart>>
       ELSE /\ users' = update_user(users, chat_id, [interval |-> arg.minutes])
            /\ timers' = start_job(timers, chat_id, arg.minutes * 60)
            /\ lastStart' = [lastStart EXCEPT ![chat_id] = arg.minutes * 60]
            /\ lg' = Replied(chat_id, "set")
  /\ UNCHANGED <<wiz, wlists, wobjs, timerFrame>>

\* no other chat is in a conversation with the wizard (the model follows one
\* conversation at a time)
NoOtherWizard(chat_id) == \A c \in Subscribers \ {chat_id} : wiz[c] = NoWizard

\* /inv_watch without arguments: the wizard starts with a new watch_config
start_watch_wizard(chat_id) ==
  /\ lg.pc \in {"idle", "booted"}
  /\ Authorized(users, chat_id)
  /\ NoOtherWizard(chat_id)
  /\ wiz' = [wiz EXCEPT ![chat_id] = [state |-> "new", id |-> "none"]]
  /\ lg' = IdleHandler
  /\ UNCHANGED <<users, timers, lastStart, wlists, wobjs, timerFrame>>

\* the arguments of /inv_watch, each as arg.split('=') returns it: a list that parses,
\* one with a price that is no integer, one with an argument without '=' and one with
\* an argument with two
LegacyArgs ==
  { << <<"model", "my">>, <<"price", "40000">> >>,
    << <<"model", "my">>, <<"price", "cheap">> >>,
    << <<"model", "my">>, <<"market">> >>,
    << <<"price", "40000">>, <<"model", "my", "3">> >> }

\* int(val): None stands for the ValueError
IntOf(val) == CASE val = "40000" -> 40000 [] OTHER -> None

RECURSIVE ParseCriteria_Partial(_, _, _)
\* variant: the arguments read before the bad one are taken as the criteria
ParseCriteria_Partial(args, i, crit) ==
  IF i > Len(args) THEN [ok |-> TRUE, criteria |-> crit]
  ELSE IF Len(args[i]) # 2 \/ (args[i][1] = "price" /\ IntOf(args[i][2]) = None)
       THEN [ok |-> TRUE, criteria |-> crit]
       ELSE ParseCriteria_Partial(args, i + 1,
              DictUpdate(crit, [k \in {args[i][1]} |->
                                     IF k = "price" THEN IntOf(args[i][2]) ELSE args[i][2]]))

RECURSIVE ParseCriteria(_, _, _)
\* the loop of legacy_inv_watch from argument i on: `key, val = arg.split('=')` raises
\* unless there are two parts, int(val) raises for a price that is no integer; ok is
\* false when the loop raised (no argument of the model has the key 'options')
ParseCriteria(args, i, crit) ==
  IF i > Len(args) THEN [ok |-> TRUE, criteria |-> crit]
  ELSE IF Len(args[i]) # 2 \/ (args[i][1] = "price" /\ IntOf(args[i][2]) = None)
       THEN [ok |-> FALSE, criteria |-> crit]
       ELSE ParseCriteria(args, i + 1,
              DictUpdate(crit, [k \in {args[i][1]} |->
                                     IF k = "price" THEN IntOf(args[i][2]) ELSE args[i][2]]))

\* /inv_watch with these arguments: when the loop went through, the criteria are
\* stored as a watch and the inventory timer is started; when it raised, the except
\* clause replies and nothing else happens
legacy_inv_watch_args(chat_id, args) ==
  LET parsed == ParseCriteria(args, 1, EmptyDict) IN
  /\ lg.pc \in {"idle", "booted"}
  /\ Authorized(users, chat_id)
  /\ Len(wobjs) < MaxWatches
  /\ IF parsed.ok
     THEN /\ add_watch(chat_id, parsed.criteria)
          /\ timers' = start_inventory_job(timers, chat_id)
          /\ lg' = Replied(chat_id, "watch_added")
     ELSE /\ lg' = Replied(chat_id, "error_parsing")
          /\ UNCHANGED <<users, wlists, wobjs, timers>>
  /\ UNCHANGED <<wiz, lastStart, timerFrame>>

\* /inv_watch key=value ...
legacy_inv_watch(chat_id) == \E args \in LegacyArgs : legacy_inv_watch_args(chat_id, args)

\* /inv_edit <id>: the wizard starts with the configuration of a watch of the user
inv_edit_command(chat_id) ==
  /\ lg.pc \in {"idle", "booted"}
  /\ Authorized(users, chat_id)
  /\ NoOtherWizard(chat_id)
  /\ "watches" \in DOMAIN users[chat_id]
  /\ \E k \in 1..Len(wlists[users[chat_id]["watches"]]) :
       /\ wiz' = [wiz EXCEPT ![chat_id] =
                    [state |-> "edit", id |-> wobjs[wlists[users[chat_id]["watches"]][k]].id]]
       /\ lg' = RepliedAbout(chat_id, "edit_menu", wobjs[wlists[users[chat_id]["watches"]][k]].id)
  /\ UNCHANGED <<users, timers, lastStart, wlists, wobjs, timerFrame>>

\* save_watch with an id in watch_config: a new list in which the watch of that id is
\* replaced by the new dict, which keeps the id and the seen set
SaveEdit(chat_id, cfg, watch_id) ==
  LET user == get_user(users, chat_id) IN
  IF ~Falsy(user) /\ "watches" \in DOMAIN user
  THEN LET old == wlists[user["watches"]]
           hit == {k \in 1..Len(old) : wobjs[old[k]].id = watch_id}
           new_dict(w) ==
             DictUpdate(SaveCriteria(cfg),
                        [id |-> watch_id, seen_vins |-> DictGetOr(w, "seen_vins", {}),
                         condition |-> cfg.condition, condition_mode |-> "all_new"])
           new_watches == [k \in 1..Len(old) |-> IF k \in hit THEN Len(wobjs) + 1 ELSE old[k]]
       IN  /\ wobjs' = IF hit = {} THEN wobjs
                       ELSE Append(wobjs, new_dict(wobjs[old[CHOOSE k \in hit : TRUE]]))
           /\ wlists' = Append(wlists, new_watches)
           /\ users' = update_user(users, chat_id, [watches |-> Len(wlists) + 1])
  ELSE UNCHANGED <<users, wlists, wobjs>>

\* the save button of the wizard: save_watch, which ends the conversation
save_watch(chat_id) ==
  /\ lg.pc \in {"idle", "booted"}
  /\ wiz[chat_id].state # "none"
  /\ Len(wobjs) < MaxWatches
  /\ Len(wlists) < MaxLists
  /\ \E cfg \in CfgPool :
       IF wiz[chat_id].state = "edit"
       THEN SaveEdit(chat_id, cfg, wiz[chat_id].id)
       ELSE add_watch(chat_id, SaveCriteria(cfg))
  /\ timers' = start_inventory_job(timers, chat_id)
  /\ wiz' = [wiz EXCEPT ![chat_id] = NoWizard]
  /\ lg' = RepliedAbout(chat_id, "watch_saved", wiz[chat_id].id)
  /\ UNCHANGED <<lastStart, timerFrame>>

\* /inv_del <id>: without an argument the usage reply; else remove_watch and the reply
\* that tells what it returned
inv_del_command(chat_id) ==
  /\ lg.pc \in {"idle", "booted"}
  /\ Authorized(users, chat_id)
  /\ Len(wlists) < MaxLists
  /\ \/ /\ lg' = Replied(chat_id, "usage")
        /\ UNCHANGED <<users, wlists, wobjs>>
     \/ \E watch_id \in WatchIds :
          /\ remove_watch(chat_id, watch_id)
          /\ lg' = RepliedAbout(chat_id, IF RemoveHits(chat_id, watch_id)
                                         THEN "watch_deleted" ELSE "not_found", watch_id)
  /\ UNCHANGED <<timers, wiz, lastStart, timerFrame>>

RECURSIVE RestoreJobs_OrderOnly(_, _)
\* variant: only the order-poll jobs are restored, each with the default interval
RestoreJobs_OrderOnly(queue, todo) ==
  IF todo = {} THEN queue
  ELSE LET uid == CHOOSE u \in todo : TRUE
       IN  RestoreJobs_OrderOnly(start_job(queue, uid, 30 * 60), todo \ {uid})

RECURSIVE RestoreJobs(_, _)
\* post_init: `for uid in users:` start_job with the stored interval, and
\* start_inventory_job when the user has watches
RestoreJobs(queue, todo) ==
  IF todo = {} THEN queue
  ELSE LET uid == CHOOSE u \in todo : TRUE
           u_data == users[uid]
           q1 == start_job(queue, uid, DictGetOr(u_data, "interval", 30) * 60)
           q2 == IF HasWatches(u_data) THEN start_inventory_job(q1, uid) ELSE q1
       IN  RestoreJobs(q2, todo \ {uid})

\* the process restarts: the queue of the new process is empty, the conversations, the
\* handler and the callbacks in flight and the inventory cache are gone, and post_init
\* restores the jobs from the store
post_init ==
  /\ timers' = RestoreJobs(EmptyBag, DOMAIN users)
  /\ lastStart' = [c \in Subscribers |->
                     IF c \in DOMAIN users THEN DictGetOr(users[c], "interval", 30) * 60
                     ELSE None]
  /\ lg' = [IdleHandler EXCEPT !.pc = "booted"]
  /\ wiz' = [c \in Subscribers |-> NoWizard]
  /\ rq' = [c \in Callers |-> IdleFrame]
  /\ job' = [c \in Chats |-> IdleJob]
  /\ ijob' = [p \in InvProcs |-> IdleInv]
  /\ cache' = EmptyDict
  /\ UNCHANGED <<users, wlists, wobjs, nextTok, calls, upstream, changes, cycles, notified,
                 dup, matchVars, clock, ticks, stock, stockChanges, iruns, prevRun, lastProc,
                 store>>

(***************************************************************************)
(* UserDatabase: the lock and the files                                    *)
(***************************************************************************)
\* the tasks of the event loop that call the store: an update handler and a job
Tasks == {"handler", "job"}

\* a file: missing, cut short (opened for writing and not yet written out), or the
\* JSON text of a map
NoFile == [kind |-> "absent"]
PartialFile == [kind |-> "partial"]
JsonFile(data) == [kind |-> "json", data |-> data]

\* a task outside the store
IdleOp == [op |-> "none", pc |-> "idle", chat_id |-> "u1", arg |-> EmptyDict, db0 |-> NoFile]

\* no crash so far
NoBoot == [at |-> "none", db0 |-> NoFile, target |-> NoFile, reread |-> EmptyDict]

\* json.dump(self.users, f): the text holds every list and dict by value
Dump(us, wl, wo) ==
  [c \in DOMAIN us |->
     IF "watches" \in DOMAIN us[c]
     THEN LET l == wl[us[c]["watches"]]
          IN  DictUpdate(us[c], [watches |-> [i \in 1 .. Len(l) |-> wo[l[i]]]])
     ELSE us[c]]

RECURSIVE LoadFrom(_, _, _)
\* json.load(f): every list and dict of the text becomes a new object
LoadFrom(data, todo, acc) ==
  IF todo = {} THEN acc
  ELSE LET c == CHOOSE x \in todo : TRUE
           rec == data[c]
       IN  IF "watches" \notin DOMAIN rec
           THEN LoadFrom(data, todo \ {c},
                         [acc EXCEPT !.users = DictUpdate(@, [x \in {c} |-> rec])])
           ELSE LET ws == rec["watches"]
                    n == Len(acc.wobjs)
                    ref == Len(acc.wlists) + 1
                IN  LoadFrom(data, todo \ {c},
                      [users |-> DictUpdate(acc.users,
                                            [x \in {c} |-> DictUpdate(rec, [watches |-> ref])]),
                       wlists |-> Append(acc.wlists, [i \in 1 .. Len(ws) |-> n + i]),
                       wobjs |-> acc.wobjs \o ws])

\* UserDatabase.__init__ and load: the map is empty when DB_FILE is missing or does not
\* parse, else it is what the file holds
load(file) ==
  LET empty == [users |-> EmptyDict, wlists |-> <<>>, wobjs |-> <<>>]
  IN  IF file.kind = "json" THEN LoadFrom(file.data, DOMAIN file.data, empty) ELSE empty

\* a task calls a method of the store. The event loop runs one task at a time and no
\* method suspends once it is past its lock, so nobody else is inside the store
store_call(t) ==
  /\ \A x \in Tasks : store.sop[x].pc = "idle"
  /\ \E chat_id \in Chats :
       \E f \in [op : {"get_user", "delete_user", "get_all_users"}, pc : {"lock"},
                 arg : {EmptyDict}]
            \cup [op : {"update_user"}, pc : {"lock"},
                  arg : { [refresh_token |-> 1, access_token |-> None, interval |-> 30],
                          [interval |-> 60] }]
            \cup [op : {"add_watch"}, pc : {"body"},
                  arg : {crit \in { [model |-> "my", price |-> 40000] } :
                           Len(wobjs) < MaxWatches}]
            \cup [op : {"remove_watch"}, pc : {"body"},
                  arg : {[id |-> watch_id] : watch_id \in {w \in WatchIds :
                                                               Len(wlists) < MaxLists}}] :
         store' = [store EXCEPT !.sop[t] = [IdleOp EXCEPT !.op = f.op, !.pc = f.pc,
                                                          !.chat_id = chat_id, !.arg = f.arg],
                                !.boot = NoBoot]
  /\ UNCHANGED <<users, wlists, wobjs, storeFrame>>

\* async with self.lock: entered when the lock is free
lock_acquire(t) ==
  /\ store.sop[t].pc = "lock"
  /\ store.lock = "free"
  /\ store' = [store EXCEPT !.lock = t, !.sop[t].pc = "body"]
  /\ UNCHANGED <<users, wlists, wobjs, storeFrame>>

\* the body of the method up to its call of save, if it makes one
store_body(t) ==
  LET f == store.sop[t]
      after == IF store.lock = t THEN "unlock" ELSE "return"
      goes(pc) == store' = [store EXCEPT !.sop[t].pc = pc]
  IN  /\ f.pc = "body"
      /\ CASE f.op = "update_user" ->
                /\ users' = update_user(users, f.chat_id, f.arg)
                /\ goes("open")
                /\ UNCHANGED <<wlists, wobjs>>
           [] f.op = "delete_user" ->
                /\ users' = delete_user(users, f.chat_id)
                /\ goes(IF f.chat_id \in DOMAIN users THEN "open" ELSE after)
                /\ UNCHANGED <<wlists, wobjs>>
           [] f.op = "add_watch" ->
                /\ \E watch_id \in WatchIds : add_watch_id(f.chat_id, f.arg, watch_id)
                /\ goes(IF Falsy(get_user(users, f.chat_id)) THEN after ELSE "open")
           [] f.op = "remove_watch" ->
                /\ remove_watch(f.chat_id, f.arg["id"])
                /\ goes(IF RemoveHits(f.chat_id, f.arg["id"]) THEN "open" ELSE after)
           [] OTHER ->
                /\ goes(after)
                /\ UNCHANGED <<users, wlists, wobjs>>
      /\ UNCHANGED storeFrame

\* variant: save in place: the map is written straight over DB_FILE
save_open_InPlace(t) ==
  /\ store.sop[t].pc = "open"
  /\ store' = [store EXCEPT !.db = PartialFile, !.sop[t].pc = "dump", !.sop[t].db0 = store.db]
  /\ UNCHANGED <<users, wlists, wobjs, storeFrame>>

\* save, open(temp, 'w'): the temp file is there and empty
save_open(t) ==
  /\ store.sop[t].pc = "open"
  /\ store' = [store EXCEPT !.tmp = PartialFile, !.sop[t].pc = "dump", !.sop[t].db0 = store.db]
  /\ UNCHANGED <<users, wlists, wobjs, storeFrame>>

\* save, json.dump and the end of the with block: the temp file holds the whole map
save_dump(t) ==
  /\ store.sop[t].pc = "dump"
  /\ store' = [store EXCEPT !.tmp = JsonFile(Dump(users, wlists, wobjs)),
                            !.sop[t].pc = "replace"]
  /\ UNCHANGED <<users, wlists, wobjs, storeFrame>>

\* save, os.replace(temp, DB_FILE): the temp file takes the name of the database file
save_replace(t) ==
  /\ store.sop[t].pc = "replace"
  /\ store' = [store EXCEPT !.db = store.tmp, !.tmp = NoFile,
                            !.sop[t].pc = IF store.lock = t THEN "unlock" ELSE "return"]
  /\ UNCHANGED <<users, wlists, wobjs, storeFrame>>

\* the end of the async with block: the lock is free again and the method returns
lock_release(t) ==
  /\ store.sop[t].pc = "unlock"
  /\ store' = [store EXCEPT !.lock = "free", !.sop[t] = IdleOp]
  /\ UNCHANGED <<users, wlists, wobjs, storeFrame>>

\* add_watch or remove_watch returns
store_return(t) ==
  /\ store.sop[t].pc = "return"
  /\ store' = [store EXCEPT !.sop[t] = IdleOp]
  /\ UNCHANGED <<users, wlists, wobjs, storeFrame>>

\* the process dies wherever it is and is started again: the files stay, the new
\* process builds its map from DB_FILE alone
crash ==
  LET inside == {t \in Tasks : store.sop[t].pc # "idle"}
      saving == {t \in Tasks : store.sop[t].pc \in {"dump", "replace"}}
      m == load(store.db)
  IN  /\ users' = m.users
      /\ wlists' = m.wlists
      /\ wobjs' = m.wobjs
      /\ store' =
           [store EXCEPT
              !.lock = "free",
              !.sop = [t \in Tasks |-> IdleOp],
              !.boot =
                [at |-> IF inside = {} THEN "idle"
                        ELSE store.sop[CHOOSE t \in inside : TRUE].pc,
                 db0 |-> IF saving = {} THEN store.db
                         ELSE store.sop[CHOOSE t \in saving : TRUE].db0,
                 target |-> IF \E t \in Tasks : store.sop[t].pc \in {"open", "dump", "replace"}
                            THEN JsonFile(Dump(users, wlists, wobjs)) ELSE store.db,
                 reread |-> Dump(m.users, m.wlists, m.wobjs)]]
      /\ UNCHANGED storeFrame

(***************************************************************************)
(* Specifications                                                          *)
(***************************************************************************)
NeverNotified == [seen |-> FALSE, vin |-> None, deliveryWindowDisplay |-> None]

\* the order side at rest
OrdersIdle ==
  /\ upstream = EmptyDict
  /\ changes = 0
  /\ job = [c \in Chats |-> IdleJob]
  /\ cycles = 0
  /\ notified = [rn \in RNs |-> NeverNotified]
  /\ dup = FALSE

\* the matcher at rest
MatchIdle ==
  /\ results = <<>>
  /\ criteria = EmptyDict
  /\ matches = <<>>
  /\ mpc = "returned"

\* the inventory side at rest
InvIdle ==
  /\ wlists = <<>>
  /\ wobjs = <<>>
  /\ cache = EmptyDict
  /\ clock = 0
  /\ ticks = 0
  /\ stock = [q \in Queries |-> <<>>]
  /\ stockChanges = 0
  /\ ijob = [p \in InvProcs |-> IdleInv]
  /\ iruns = 0
  /\ prevRun = RunSummary(IdleInv)
  /\ lastProc = "inventory_job"

\* the job queue at rest
TimersIdle ==
  /\ timers = EmptyBag
  /\ lg = IdleHandler
  /\ wiz = [c \in Subscribers |-> NoWizard]
  /\ lastStart = [c \in Subscribers |-> None]

\* the store at rest: nobody inside a method, the files of a first start
StoreIdle ==
  store = [lock |-> "free", db |-> NoFile, tmp |-> NoFile,
           sop |-> [t \in Tasks |-> IdleOp], boot |-> NoBoot]

\* TeslaClient.request on its own, called on every kind of record
ClientInit ==
  /\ users \in {EmptyDict} \cup {[c \in Chats |-> d] : d \in InitUserDicts}
  /\ rq = [c \in Callers |-> IdleFrame]
  /\ nextTok = 2
  /\ calls = 0
  /\ OrdersIdle
  /\ MatchIdle
  /\ InvIdle
  /\ TimersIdle
  /\ StoreIdle

ClientNext ==
  \E c \in Callers :
    \/ ClientCall(c)
    \/ ClientRefresh(c)
    \/ ClientGet(c)

SpecClient == ClientInit /\ [][ClientNext]_vars

\* the coroutines of one subscriber that call TeslaClient.request at the same time:
\* check_orders_task and status_command
OverlapCallers == {"job", "status"}

\* two overlapping callers of a logged-in subscriber
OverlapInit ==
  /\ users \in {[c \in Chats |-> d] : d \in {u \in InitUserDicts : LoggedIn(u)}}
  /\ rq = [c \in OverlapCallers |-> IdleFrame]
  /\ nextTok = 2
  /\ calls = 0
  /\ OrdersIdle
  /\ MatchIdle
  /\ InvIdle
  /\ TimersIdle
  /\ StoreIdle

OverlapNext ==
  \E c \in OverlapCallers :
    \/ ClientCall(c)
    \/ ClientRefresh(c)
    \/ ClientPost(c)
    \/ ClientResp(c)
    \/ ClientGet(c)

SpecOverlap == OverlapInit /\ [][OverlapNext]_vars

\* the order upstream when the user has just logged in
InitUpstreams ==
  { EmptyDict,
    [rn \in {"RN1"} |-> BareOrder],
    [rn \in RNs |-> BareOrder] }

\* the order poll cycle of a logged-in user against a changing upstream
OrdersInit ==
  /\ users = [c \in Chats |-> [refresh_token |-> 1, access_token |-> 1, interval |-> 30]]
  /\ rq = [c \in Callers |-> IdleFrame]
  /\ nextTok = 2
  /\ calls = 0
  /\ upstream \in InitUpstreams
  /\ changes = 0
  /\ job = [c \in Chats |-> IdleJob]
  /\ cycles = 0
  /\ notified = [rn \in RNs |-> NeverNotified]
  /\ dup = FALSE
  /\ MatchIdle
  /\ InvIdle
  /\ TimersIdle
  /\ StoreIdle

OrdersNext ==
  \/ UpstreamChange
  \/ \E chat_id \in Chats :
       \/ check_orders_task(chat_id)
       \/ JobRefresh(chat_id)
       \/ JobGet(chat_id)
       \/ orders_fetched(chat_id)
       \/ details_fetched(chat_id)
       \/ send_photo(chat_id)
       \/ send_message(chat_id)

SpecOrders == OrdersInit /\ [][OrdersNext]_vars

\* find_matches applied to every result list and watch of the pools
MatchInit ==
  /\ users = EmptyDict
  /\ rq = [c \in Callers |-> IdleFrame]
  /\ nextTok = 2
  /\ calls = 0
  /\ OrdersIdle
  /\ results \in ResultLists
  /\ criteria \in CriteriaPool
  /\ matches = <<>>
  /\ mpc = "args"
  /\ InvIdle
  /\ TimersIdle
  /\ StoreIdle

MatchNext == FindMatches

SpecMatch == MatchInit /\ [][MatchNext]_vars

\* the watch lists the inventory cycles start from: no watch, one watch, two watches
InitWatchObjs == { <<>>, <<WatchPool[1]>>, <<WatchPool[1], WatchPool[2]>> }

\* the store of a logged-in user whose watch list holds the watch dicts wo
InvStart(wo) ==
  /\ users = [c \in Chats |->
                [refresh_token |-> 1, access_token |-> 1, interval |-> 30, watches |-> 1]]
  /\ rq = [c \in Callers |-> IdleFrame]
  /\ nextTok = 2
  /\ calls = 0
  /\ OrdersIdle
  /\ MatchIdle
  /\ TimersIdle
  /\ StoreIdle
  /\ wobjs = wo
  /\ wlists = << [i \in 1..Len(wo) |-> i] >>
  /\ cache = EmptyDict
  /\ clock = 0
  /\ ticks = 0
  /\ stockChanges = 0
  /\ ijob = [p \in InvProcs |-> IdleInv]
  /\ iruns = 0
  /\ prevRun = RunSummary(IdleInv)
  /\ lastProc = "inventory_job"

\* the inventory cycles of a logged-in user against a changing upstream; the clock
\* moves by whole lifetimes of a cache entry
InvInit ==
  /\ \E wo \in InitWatchObjs : InvStart(wo)
  /\ \E l \in StockLists : stock = [q \in Queries |-> l]

\* the steps of an inventory cycle
CycleNext ==
  \/ inv_check_started
  \/ inv_check_replied
  \/ \E chat_id \in Chats :
       \/ inventory_job(chat_id)
       \/ inv_check_command(chat_id)
  \/ \E p \in InvProcs :
       \/ inventory_fetched(p)
       \/ inventory_sent(p)

InvNext ==
  \/ TickTtl
  \/ StockChange
  \/ CycleNext

SpecInv == InvInit /\ [][InvNext]_vars

\* the inventory cycles of a user with two watches against an upstream that lists two
\* cars; the clock moves by the steps that meet the end of a lifetime exactly
CacheInit ==
  /\ \E wo \in { <<WatchPool[1], WatchPool[2]>>, <<WatchPool[1], WatchPool[3]>> } :
       InvStart(wo)
  /\ stock = [q \in Queries |-> <<CarA, CarB>>]

CacheNext ==
  \/ Tick
  \/ CycleNext

SpecCache == CacheInit /\ [][CacheNext]_vars

\* the handlers that touch the job queue, from an empty store
TimersInit ==
  /\ users = EmptyDict
  /\ rq = [c \in Callers |-> IdleFrame]
  /\ nextTok = 2
  /\ calls = 0
  /\ OrdersIdle
  /\ MatchIdle
  /\ InvIdle
  /\ TimersIdle
  /\ StoreIdle

TimersNext ==
  \/ login_orders
  \/ login_edited
  \/ logout_replied
  \/ post_init
  \/ \E chat_id \in Subscribers :
       \/ login_command(chat_id)
       \/ logout_command(chat_id)
       \/ interval_command(chat_id)
       \/ start_watch_wizard(chat_id)
       \/ legacy_inv_watch(chat_id)
       \/ inv_edit_command(chat_id)
       \/ save_watch(chat_id)

SpecTimers == TimersInit /\ [][TimersNext]_vars

\* the life of one subscriber: login, a watch, the order cycles of its timer against an
\* upstream that lists one order, logout while a cycle may be in flight, and restarts
LifeInit ==
  /\ users = EmptyDict
  /\ rq = [c \in Callers |-> IdleFrame]
  /\ nextTok = 3
  /\ calls = 0
  /\ upstream = [rn \in {"RN1"} |-> BareOrder]
  /\ changes = 0
  /\ job = [c \in Chats |-> IdleJob]
  /\ cycles = 0
  /\ notified = [rn \in RNs |-> NeverNotified]
  /\ dup = FALSE
  /\ MatchIdle
  /\ InvIdle
  /\ TimersIdle
  /\ StoreIdle

\* the scheduler fires the order-poll job the queue holds for the chat
run_order_job(chat_id) ==
  /\ get_jobs_by_name(timers, Str(chat_id)) # EmptyBag
  /\ check_orders_task(chat_id)

LifeNext ==
  \/ login_orders
  \/ login_edited
  \/ logout_replied
  \/ post_init
  \/ \E chat_id \in Chats :
       \/ login_command(chat_id)
       \/ logout_command(chat_id)
       \/ legacy_inv_watch(chat_id)
       \/ run_order_job(chat_id)
       \/ JobRefresh(chat_id)
       \/ JobGet(chat_id)
       \/ orders_fetched(chat_id)
       \/ details_fetched(chat_id)
       \/ send_photo(chat_id)
       \/ send_message(chat_id)

SpecLife == LifeInit /\ [][LifeNext]_vars

\* the two callbacks of one subscriber side by side: the order cycles against an
\* upstream that lists one order, the inventory cycles of a watch against an upstream
\* that lists one car
BothInit ==
  /\ users = [c \in Chats |->
                [refresh_token |-> 1, access_token |-> 1, interval |-> 30, watches |-> 1]]
  /\ rq = [c \in Callers |-> IdleFrame]
  /\ nextTok = 2
  /\ calls = 0
  /\ upstream = [rn \in {"RN1"} |-> BareOrder]
  /\ changes = 0
  /\ job = [c \in Chats |-> [IdleJob EXCEPT !.user0 = NoneUser]]
  /\ cycles = 0
  /\ notified = [rn \in RNs |-> NeverNotified]
  /\ dup = FALSE
  /\ MatchIdle
  /\ TimersIdle
  /\ StoreIdle
  /\ wobjs = <<WatchPool[1]>>
  /\ wlists = << <<1>> >>
  /\ cache = EmptyDict
  /\ clock = 0
  /\ ticks = 0
  /\ stock = [q \in Queries |-> <<CarA>>]
  /\ stockChanges = 0
  /\ ijob = [p \in InvProcs |-> IdleInv]
  /\ iruns = 0
  /\ prevRun = RunSummary(IdleInv)
  /\ lastProc = "inventory_job"

BothNext ==
  \/ inventory_fetched("inventory_job")
  \/ inventory_sent("inventory_job")
  \/ \E chat_id \in Chats :
       \/ inventory_job(chat_id)
       \/ check_orders_task(chat_id)
       \/ JobRefresh(chat_id)
       \/ JobGet(chat_id)
       \/ orders_fetched(chat_id)
       \/ details_fetched(chat_id)
       \/ send_photo(chat_id)
       \/ send_message(chat_id)

SpecBoth == BothInit /\ [][BothNext]_vars

\* the methods of the store called by two tasks of one event loop, from a first start,
\* with the process dying and restarting at any point
StoreInit ==
  /\ users = EmptyDict
  /\ rq = [c \in Callers |-> IdleFrame]
  /\ nextTok = 2
  /\ calls = 0
  /\ OrdersIdle
  /\ MatchIdle
  /\ InvIdle
  /\ TimersIdle
  /\ StoreIdle

StoreNext ==
  \/ crash
  \/ \E t \in Tasks :
       \/ store_call(t)
       \/ lock_acquire(t)
       \/ store_body(t)
       \/ save_open(t)
       \/ save_dump(t)
       \/ save_replace(t)
       \/ lock_release(t)
       \/ store_return(t)

SpecStore == StoreInit /\ [][StoreNext]_vars

\* the two handlers that take typed arguments, /interval and /inv_watch key=value, for
\* two logged-in subscribers whose order timers run; the last reply is kept
InputInit ==
  /\ users = [c \in Subscribers |-> [refresh_token |-> 1, access_token |-> 1, interval |-> 30]]
  /\ rq = [c \in Callers |-> IdleFrame]
  /\ nextTok = 2
  /\ calls = 0
  /\ OrdersIdle
  /\ MatchIdle
  /\ InvIdle
  /\ StoreIdle
  /\ timers = SetToBag({[callback |-> "check_orders_task", interval |-> 30 * 60, first |-> 10,
                         chat_id |-> c, name |-> Str(c)] : c \in Subscribers})
  /\ lg = [IdleHandler EXCEPT !.reply = [text |-> "none"]]
  /\ wiz = [c \in Subscribers |-> NoWizard]
  /\ lastStart = [c \in Subscribers |-> 30 * 60]

InputNext ==
  \E chat_id \in Subscribers :
    \/ interval_command(chat_id)
    \/ legacy_inv_watch(chat_id)

SpecInput == InputInit /\ [][InputNext]_vars

\* a subscriber with one watch: the inventory cycles of the timer and of /inv_check,
\* while the subscriber deletes the watch or edits it; the last reply is kept
WatchInit ==
  /\ users = [c \in Chats |->
                [refresh_token |-> 1, access_token |-> 1, interval |-> 30, watches |-> 1]]
  /\ rq = [c \in Callers |-> IdleFrame]
  /\ nextTok = 2
  /\ calls = 0
  /\ OrdersIdle
  /\ MatchIdle
  /\ StoreIdle
  /\ timers = SetToBag({[callback |-> "inventory_job", interval |-> 600, first |-> 10,
                         chat_id |-> c, name |-> InvName(c)] : c \in Chats})
  /\ lg = [IdleHandler EXCEPT !.reply = [text |-> "none"]]
  /\ wiz = [c \in Subscribers |-> NoWizard]
  /\ lastStart = [c \in Subscribers |-> None]
  /\ wobjs = <<WatchPool[1]>>
  /\ wlists = << <<1>> >>
  /\ cache = EmptyDict
  /\ clock = 0
  /\ ticks = 0
  /\ stock = [q \in Queries |-> <<CarA>>]
  /\ stockChanges = 0
  /\ ijob = [p \in InvProcs |-> IdleInv]
  /\ iruns = 0
  /\ prevRun = RunSummary(IdleInv)
  /\ lastProc = "inventory_job"

WatchNext ==
  \/ CycleNext
  \/ \E chat_id \in Chats :
       \/ inv_del_command(chat_id)
       \/ inv_edit_command(chat_id)
       \/ save_watch(chat_id)

SpecWatch == WatchInit /\ [][WatchNext]_vars

(***************************************************************************)
(* Properties of check_orders_task (SpecOrders)                            *)
(***************************************************************************)
\* the positions of the fetched list whose diff the cycle has evaluated
Processed(j) ==
  CASE j.pc = "get_order_details" -> 1..(j.i - 1)
    [] j.pc \in {"send_photo", "send_message"} -> 1..j.i
    [] j.pc = "done" /\ j.outcome = "saved" -> 1..Len(j.orders)
    [] j.pc = "done" /\ j.outcome = "details_failed" -> 1..(j.i - 1)
    [] j.pc = "done" /\ j.outcome = "send_failed" -> 1..j.i
    [] OTHER -> {}

\* the tracked fields of the order at position k as this cycle fetched them
Tracked(j, k) ==
  [seen |-> TRUE, vin |-> j.orders[k].vin,
   deliveryWindowDisplay |->
     j.curr_map[j.orders[k].referenceNumber].details.tasks.scheduling.deliveryWindowDisplay]

\* the order at position k is absent from the previous snapshot, or its vin or its
\* deliveryWindowDisplay differ from the snapshot's
NewOrChanged(j, k) ==
  LET rn == j.orders[k].referenceNumber IN
  \/ rn \notin DOMAIN j.prev_map
  \/ j.prev_map[rn].summary.vin # Tracked(j, k).vin
  \/ j.prev_map[rn].details.tasks.scheduling.deliveryWindowDisplay
       # Tracked(j, k).deliveryWindowDisplay

\* C1 (as claimed): every change of an order produces exactly one notification: no
\* delivered notification repeats the state the subscriber was last notified about
\* for that order, and after a cycle that saved its snapshot every listed order has
\* been notified about the state the cycle fetched.
C1_ExactlyOneNotificationPerChange ==
  /\ dup = FALSE
  /\ \A chat_id \in Chats :
       (job[chat_id].pc = "done" /\ job[chat_id].outcome = "saved")
         => \A k \in 1..Len(job[chat_id].orders) :
              notified[job[chat_id].orders[k].referenceNumber] = Tracked(job[chat_id], k)

\* C2: in a cycle, the sink is called for an order whose diff the cycle has evaluated
\* if and only if the order is absent from the previous snapshot or its vin or its
\* deliveryWindowDisplay differ; a cycle that runs to its end evaluates every order.
C2_NotifyIffNewOrChanged ==
  \A chat_id \in Chats :
    LET j == job[chat_id] IN
    /\ j.attempted \subseteq Processed(j)
    /\ \A k \in Processed(j) : (k \in j.attempted) <=> NewOrChanged(j, k)
    /\ (j.pc = "done" /\ j.outcome = "saved") => Processed(j) = 1..Len(j.orders)

\* the third cycle of RN1: new, then vin assigned, then only the status changed
C2_Witness ==
  \E chat_id \in Chats :
    LET j == job[chat_id] IN
    /\ cycles = 3 /\ j.pc = "done" /\ j.outcome = "saved"
    /\ Len(j.orders) = 1 /\ j.attempted = {}
    /\ j.orders[1].referenceNumber \in DOMAIN j.prev_map
    /\ j.orders[1].vin # None
    /\ j.prev_map[j.orders[1].referenceNumber].summary.orderStatus # j.orders[1].orderStatus
    /\ notified[j.orders[1].referenceNumber] = Tracked(j, 1)

\* C3: when the detail fetch of an order fails, the 'orders_state' entry of the
\* user after the cycle is the entry from before the cycle.
C3_DetailFailureKeepsSnapshot ==
  \A chat_id \in Chats :
    (job[chat_id].pc = "done" /\ job[chat_id].outcome = "details_failed")
      => OrdersStateOf(users, chat_id) = job[chat_id].snap0

\* the detail fetch of the second of two orders failed after the first was collected
C3_Witness ==
  \E chat_id \in Chats :
    /\ job[chat_id].pc = "done" /\ job[chat_id].outcome = "details_failed"
    /\ job[chat_id].i = 2
    /\ job[chat_id].curr_map # EmptyDict
    /\ job[chat_id].snap0.present

\* C4 (as claimed): after a cycle whose list fetch and whose detail fetch for every
\* listed order succeeded, the stored snapshot is the map of this cycle: its keys are
\* the reference numbers of the fetched list, its values what the cycle fetched.
C4_SnapshotReplacedWholesale ==
  \A chat_id \in Chats :
    LET j == job[chat_id] IN
    ( /\ j.pc = "done"
      /\ j.outcome \in {"saved", "send_failed"}
      /\ DOMAIN j.curr_map = {j.orders[k].referenceNumber : k \in 1..Len(j.orders)} )
      => /\ OrdersStateOf(users, chat_id).present
         /\ OrdersStateOf(users, chat_id).value = j.curr_map
         /\ DOMAIN OrdersStateOf(users, chat_id).value
              = {j.orders[k].referenceNumber : k \in 1..Len(j.orders)}

(***************************************************************************)
(* Properties of TeslaClient.request (SpecClient)                          *)
(***************************************************************************)
\* the GET entries of a call's log
GetEntries(log) == {i \in 1..Len(log) : log[i].op = "GET"}
\* the POST (refresh exchange) entries of a call's log
PostEntries(log) == {i \in 1..Len(log) : log[i].op = "POST"}

\* a finished call that went: GET with the stored token -> 401, refresh -> 200, retry -> 200
RefreshThenRetryOk(c) ==
  /\ rq[c].pc = "done"
  /\ Len(rq[c].log) = 3
  /\ rq[c].log[1].op = "GET" /\ rq[c].log[1].status = 401
  /\ rq[c].log[2].op = "POST" /\ rq[c].log[2].status = 200
  /\ rq[c].log[3].op = "GET" /\ rq[c].log[3].status = 200

\* C5: a call whose first attempt with the stored access token is answered 401, whose
\* refresh exchange succeeds and whose retry is answered 200 returns the body of the
\* retry's answer, and the store then holds the pair the exchange issued.
C5_RefreshThenRetry ==
  \A c \in Callers :
    RefreshThenRetryOk(c) =>
      /\ rq[c].ret.kind = "json"
      /\ rq[c].ret.body = rq[c].log[3].body
      /\ rq[c].chat_id \in DOMAIN users
      /\ DictGetOr(users[rq[c].chat_id], "access_token", None) = rq[c].log[2].issued
      /\ DictGetOr(users[rq[c].chat_id], "refresh_token", None) = rq[c].log[2].issued
      /\ rq[c].log[3].token = rq[c].log[2].issued

C5_Witness ==
  \E c \in Callers : RefreshThenRetryOk(c) /\ rq[c].ret.body \in Bodies

\* C6: one call issues at most two GETs; when the retry (the second GET) is answered
\* 401 the call is over with the authentication error.
C6_AtMostTwoRequests ==
  \A c \in Callers :
    /\ Cardinality(GetEntries(rq[c].log)) <= 2
    /\ \A i \in GetEntries(rq[c].log) :
         (rq[c].log[i].status = 401 /\ \E j \in GetEntries(rq[c].log) : j < i)
           => /\ i = Len(rq[c].log)
              /\ rq[c].pc = "done"
              /\ rq[c].ret.kind = "auth_failed"

C6_Witness ==
  \E c \in Callers :
    /\ Cardinality(GetEntries(rq[c].log)) = 2
    /\ rq[c].log[Len(rq[c].log)].op = "GET"
    /\ rq[c].log[Len(rq[c].log)].status = 401
    /\ rq[c].ret.kind = "auth_failed"

\* C7 (as claimed): whenever the refresh exchange is answered with an error status, the
\* call ends with the authentication error.
C7_RefreshFailureIsAuthError ==
  \A c \in Callers :
    \A i \in PostEntries(rq[c].log) :
      rq[c].log[i].status # 200 => (rq[c].pc = "done" /\ rq[c].ret.kind = "auth_failed")

\* C8: a call made while the store has no record for the user, or a record without
\* refresh token, is over at once with the 'not logged in' error: no GET and no
\* refresh exchange has been issued and the store is as it was.
C8_NotLoggedIn ==
  [][\A c \in Callers :
       (calls' = calls + 1 /\ ~LoggedIn(get_user(users, rq'[c].chat_id)))
         => /\ rq'[c].pc = "done"
            /\ rq'[c].ret = [kind |-> "not_logged_in", status |-> 0, body |-> "none"]
            /\ rq'[c].log = <<>>
            /\ users' = users
            /\ nextTok' = nextTok]_vars

C8_Witness ==
  \E c \in Callers :
    /\ rq[c].pc = "done" /\ rq[c].ret.kind = "not_logged_in" /\ rq[c].log = <<>>
    /\ ~LoggedIn(get_user(users, rq[c].chat_id))
    /\ calls > 0

\* C9: a GET answered with an error status other than 401 ends the call: it is the
\* last exchange of the call (no retry, no refresh exchange after it) and the call
\* raises the HTTP error with that status.
C9_NonAuthErrorPropagates ==
  \A c \in Callers :
    \A i \in GetEntries(rq[c].log) :
      (rq[c].log[i].status >= 400 /\ rq[c].log[i].status # 401)
        => /\ i = Len(rq[c].log)
           /\ rq[c].pc = "done"
           /\ rq[c].ret = [kind |-> "http_error", status |-> rq[c].log[i].status, body |-> "none"]

C9_Witness ==
  \E c \in Callers :
    /\ rq[c].pc = "done" /\ rq[c].ret.kind = "http_error"
    /\ rq[c].log # <<>>
    /\ rq[c].log[Len(rq[c].log)].op = "GET"
    /\ rq[c].log[Len(rq[c].log)].status = 500

(***************************************************************************)
(* Properties of find_matches (SpecMatch)                                  *)
(***************************************************************************)
\* the option codes the watch requires
Required(crit) ==
  {DictGetOr(crit, "options", <<>>)[k] : k \in 1..Len(DictGetOr(crit, "options", <<>>))}

\* the price gate: no ceiling, or the car's price is not above it
PriceGate(car, crit) ==
  "price" \notin DOMAIN crit \/ crit["price"] = None \/ CarPrice(car) <= crit["price"]

\* the grouped option gate: every family with a requested code is satisfied by one
\* of the requested codes of that family
GroupedGate(car, crit) ==
  \A a \in Required(crit) :
    \E b \in Required(crit) : Family(b) = Family(a) /\ b \in CarOptions(car)

\* C10 (as claimed): when the watch requires two codes of one family, find_matches
\* returns every car of the list that carries one of them and passes the other gates.
C10_OrWithinFamily ==
  mpc = "returned" =>
    \A a, b \in Required(criteria) :
      (a # b /\ Family(a) = Family(b)) =>
        \A k \in 1..Len(results) :
          ( /\ (a \in CarOptions(results[k]) \/ b \in CarOptions(results[k]))
            /\ PriceGate(results[k], criteria)
            /\ GroupedGate(results[k], criteria) )
            => \E m \in 1..Len(matches) : matches[m] = results[k]

\* the car at position k of the result list is in the returned list
Returned(k) == \E m \in 1..Len(matches) : matches[m] = results[k]

\* the watch has no price ceiling
NoCeiling(crit) == "price" \notin DOMAIN crit \/ crit["price"] = None

\* C11 (as claimed): for a watch without ceiling, find_matches returns exactly the cars
\* that carry, for every family with a requested code, one of the requested codes of
\* that family (a trim plus two paints: the cars with that trim and one of the paints).
C11_AndAcrossFamilies ==
  (mpc = "returned" /\ NoCeiling(criteria)) =>
    \A k \in 1..Len(results) : Returned(k) <=> GroupedGate(results[k], criteria)

\* C12: a required code the category table does not list is required literally: every
\* returned car carries it, so when no car of the list carries it nothing is returned.
C12_UnknownCodeIsLiteral ==
  mpc = "returned" =>
    \A a \in Required(criteria) :
      Family(a) = a =>
        /\ \A m \in 1..Len(matches) : a \in CarOptions(matches[m])
        /\ (\A k \in 1..Len(results) : a \notin CarOptions(results[k])) => matches = <<>>

\* of two cars with the listed trim, only the one that carries the unlisted code is returned
C12_Witness ==
  /\ mpc = "returned"
  /\ Required(criteria) = {"$MTY41", "$NON_EXISTENT"}
  /\ Len(results) = 2 /\ Len(matches) = 1
  /\ "$MTY41" \in CarOptions(results[1]) /\ "$NON_EXISTENT" \notin CarOptions(results[1])
  /\ matches[1] = results[2]
  /\ "$NON_EXISTENT" \in CarOptions(results[2])

\* the watch has a ceiling the price check applies (`if max_price and ...`)
CeilingSet(crit) == ~NoCeiling(crit) /\ crit["price"] # 0

\* C13: with a ceiling set and no required option, a car priced at the ceiling is
\* returned and a car priced one unit above it is not.
C13_CeilingInclusive ==
  (mpc = "returned" /\ CeilingSet(criteria) /\ Required(criteria) = {}) =>
    \A k \in 1..Len(results) :
      /\ CarPrice(results[k]) = criteria["price"] => Returned(k)
      /\ CarPrice(results[k]) = criteria["price"] + 1 => ~Returned(k)

\* a car at the ceiling and a car one unit above it: only the first is returned
C13_Witness ==
  /\ mpc = "returned" /\ CeilingSet(criteria) /\ Required(criteria) = {}
  /\ Len(results) = 2
  /\ CarPrice(results[1]) = criteria["price"] + 1
  /\ CarPrice(results[2]) = criteria["price"]
  /\ matches = <<results[2]>>

\* C14 (as claimed): with any non-null ceiling every returned car is priced at or below
\* it; without a ceiling the price constrains nothing.
C14_CeilingBoundsEveryMatch ==
  mpc = "returned" =>
    /\ ~NoCeiling(criteria) =>
         \A m \in 1..Len(matches) : CarPrice(matches[m]) <= criteria["price"]
    /\ NoCeiling(criteria) =>
         \A k \in 1..Len(results) : ~OptionsReject(results[k], criteria) => Returned(k)

\* C14 (amended): with a ceiling other than None and 0 every returned car is priced at
\* or below it; a ceiling of None or 0, or no ceiling, constrains nothing.
C14_NonZeroCeilingBoundsEveryMatch ==
  mpc = "returned" =>
    /\ CeilingSet(criteria) =>
         \A m \in 1..Len(matches) : CarPrice(matches[m]) <= criteria["price"]
    /\ ~CeilingSet(criteria) =>
         \A k \in 1..Len(results) : ~OptionsReject(results[k], criteria) => Returned(k)

\* a ceiling of 0 lets a car priced above it through; a ceiling of 40000 would not
C14_Witness ==
  /\ mpc = "returned"
  /\ ~NoCeiling(criteria) /\ criteria["price"] = 0
  /\ Len(results) = 2 /\ matches = results
  /\ CarPrice(results[1]) = 40001
  /\ CarPrice(results[2]) = 40000

(***************************************************************************)
(* Properties of the inventory cycle (SpecInv)                             *)
(***************************************************************************)
\* the frame of the latest cycle
LatestCycle == ijob[lastProc]

\* what find_matches returned for the watch at position i of the latest cycle
CycleMatches(i) ==
  find_matches(LatestCycle.got[i].results, wobjs[wlists[LatestCycle.watches][i]])

\* C15: when the latest cycle obtained for a watch the result list that the cycle
\* before it, which ran to its end, obtained for that watch, the latest cycle has sent
\* no notification for the watch.
C15_DedupIdempotent ==
  prevRun.ok =>
    \A i \in 1..Len(LatestCycle.got) :
      ( /\ i <= Len(prevRun.got)
        /\ LatestCycle.got[i].fetch # "pending"
        /\ LatestCycle.got[i].results = prevRun.got[i] )
        => LatestCycle.sent[i] = <<>>

\* the second cycle fetched again the list of which the first cycle notified a car,
\* and sent nothing
C15_Witness ==
  /\ prevRun.ok
  /\ LatestCycle.pc = "done" /\ LatestCycle.outcome = "completed"
  /\ Len(LatestCycle.got) >= 1 /\ Len(prevRun.got) >= 1
  /\ LatestCycle.got[1].fetch = "ok"
  /\ LatestCycle.got[1].results = prevRun.got[1]
  /\ CycleMatches(1) # <<>>
  /\ prevRun.sent[1] # <<>>
  /\ \A i \in 1..Len(LatestCycle.sent) : LatestCycle.sent[i] = <<>>

\* C16 (as claimed): once a cycle is through with a watch, it has sent every car
\* without VIN that find_matches returned for the watch, whatever the seen set held.
C16_NoVinNeverDeduplicated ==
  \A i \in 1..Len(LatestCycle.got) :
    i < LatestCycle.w =>
      \A m \in 1..Len(CycleMatches(i)) :
        "VIN" \notin DOMAIN CycleMatches(i)[m] =>
          \E n \in 1..Len(LatestCycle.sent[i]) : LatestCycle.sent[i][n] = CycleMatches(i)[m]

(***************************************************************************)
(* Properties of check_inventory (SpecCache)                               *)
(***************************************************************************)
\* C17: a check_inventory call made less than cache_ttl seconds after the timestamp of
\* the entry of its fingerprint returns the list of the entry and issues no GET; a call
\* that finds no entry, or an entry that is cache_ttl seconds old or older, issues a GET.
C17_CacheTtl ==
  \A p \in InvProcs :
    \A i \in 1..Len(ijob[p].got) :
      LET e == ijob[p].got[i] IN
      IF e.had_entry /\ e.at - e.entry_ts < cache_ttl
      THEN e.fetch = "none" /\ e.results = e.cached
      ELSE e.fetch # "none"

\* two watches with one fingerprint: the call for the first came 299 seconds after the
\* entry's timestamp and was served from the entry, the call for the second came at
\* 300 seconds and fetched
C17_Witness ==
  \E p \in InvProcs :
    /\ Len(ijob[p].got) = 2
    /\ ijob[p].got[1].key = ijob[p].got[2].key
    /\ ijob[p].got[1].had_entry
    /\ ijob[p].got[1].at - ijob[p].got[1].entry_ts = cache_ttl - 1
    /\ ijob[p].got[1].fetch = "none"
    /\ ijob[p].got[1].results # <<>>
    /\ ijob[p].got[2].had_entry
    /\ ijob[p].got[2].at - ijob[p].got[2].entry_ts = cache_ttl
    /\ ijob[p].got[2].fetch = "ok"

\* C18: a GET of check_inventory that fails makes the call return [] and leaves the
\* cache as it was, so that the fingerprint has no usable entry afterwards; the cache
\* changes only when a GET is answered 200, and then the fingerprint's entry holds the
\* list of that answer.
C18_FailedFetchNotCached ==
  [][ /\ \A p \in InvProcs :
           (ijob[p].pc = "fetch" /\ ijob'[p].got[ijob[p].w].fetch = "failed")
             => /\ ijob'[p].got[ijob[p].w].results = <<>>
                /\ cache' = cache
                /\ ~( /\ ijob[p].key \in DOMAIN cache'
                      /\ clock' - cache'[ijob[p].key].timestamp < cache_ttl )
      /\ cache' # cache =>
           \E p \in InvProcs :
             /\ ijob[p].pc = "fetch"
             /\ ijob'[p].got[ijob[p].w].fetch = "ok"
             /\ ijob'[p].got[ijob[p].w].results = stock[ijob[p].query]
             /\ DOMAIN cache' = (DOMAIN cache) \cup {ijob[p].key}
             /\ cache'[ijob[p].key] = [timestamp |-> clock, results |-> stock[ijob[p].query]]
             /\ \A k \in DOMAIN cache : k # ijob[p].key => cache'[k] = cache[k] ]_vars

\* the GET for the first of two watches with one fingerprint failed over an expired
\* entry, which stayed as it was, and the call for the second watch fetched again
C18_Witness ==
  \E p \in InvProcs :
    /\ Len(ijob[p].got) = 2
    /\ ijob[p].got[1].key = ijob[p].got[2].key
    /\ ijob[p].got[1].had_entry
    /\ ijob[p].got[1].fetch = "failed"
    /\ ijob[p].got[1].results = <<>>
    /\ ijob[p].got[2].had_entry
    /\ ijob[p].got[2].entry_ts = ijob[p].got[1].entry_ts
    /\ ijob[p].got[2].cached # <<>>
    /\ ijob[p].got[2].fetch = "ok"

(***************************************************************************)
(* Properties of the job queue (SpecTimers)                                *)
(***************************************************************************)
\* the order-poll jobs of a chat in a queue
OrderJobs(queue, c) ==
  [j \in {x \in DOMAIN queue : x.callback = "check_orders_task" /\ x.chat_id = c} |-> queue[j]]

\* the inventory-poll jobs of a chat in a queue
InvJobs(queue, c) ==
  [j \in {x \in DOMAIN queue : x.callback = "inventory_job" /\ x.chat_id = c} |-> queue[j]]

\* the order-poll job start_job registers for the chat
OrderJob(c, interval) ==
  [callback |-> "check_orders_task", interval |-> interval, first |-> 10,
   chat_id |-> c, name |-> Str(c)]

\* C19: once start_job has been called for a chat, by login, an interval change or the
\* restoration at process start, the queue holds exactly one job under the chat's name:
\* the order-poll job with the interval of the latest call.
C19_StartJobIdempotent ==
  \A c \in Subscribers :
    lastStart[c] # None =>
      /\ get_jobs_by_name(timers, Str(c)) = SetToBag({OrderJob(c, lastStart[c])})
      /\ OrderJobs(timers, c) = SetToBag({OrderJob(c, lastStart[c])})

\* after the login at 30 minutes the interval was set to 60 minutes: one order-poll job
\* with the new period, next to the job of the other chat
C19_Witness ==
  /\ lastStart["u1"] = 60 * 60
  /\ lastStart["u2"] = 30 * 60
  /\ BagCardinality(timers) = 2
  /\ "u1" \in DOMAIN users /\ users["u1"]["interval"] = 60

\* C20: a chat never has more than one order-poll job nor more than one inventory-poll
\* job, and on every queue the program reaches start_job leaves the inventory-poll jobs
\* as they are, start_inventory_job leaves the order-poll jobs as they are, and neither
\* touches the jobs of another chat.
C20_OneTimerPerClass ==
  /\ \A c \in Subscribers :
       /\ BagCardinality(OrderJobs(timers, c)) <= 1
       /\ BagCardinality(InvJobs(timers, c)) <= 1
  /\ \A c, d \in Subscribers :
       /\ \A n \in {30 * 60, 60 * 60} :
            /\ InvJobs(start_job(timers, c, n), d) = InvJobs(timers, d)
            /\ c # d => OrderJobs(start_job(timers, c, n), d) = OrderJobs(timers, d)
            /\ OrderJobs(start_job(timers, c, n), c) = SetToBag({OrderJob(c, n)})
       /\ OrderJobs(start_inventory_job(timers, c), d) = OrderJobs(timers, d)
       /\ c # d => InvJobs(start_inventory_job(timers, c), d) = InvJobs(timers, d)
       /\ BagCardinality(InvJobs(start_inventory_job(timers, c), c)) = 1

\* a chat with both jobs, the order-poll job already replaced once, and the jobs of
\* the other chat next to them
C20_Witness ==
  /\ BagCardinality(OrderJobs(timers, "u1")) = 1
  /\ BagCardinality(InvJobs(timers, "u1")) = 1
  /\ BagCardinality(OrderJobs(timers, "u2")) = 1
  /\ BagCardinality(InvJobs(timers, "u2")) = 1
  /\ lastStart["u1"] = 60 * 60
  /\ BagCardinality(timers) = 4
(***************************************************************************)
(* Restart and logout (C21 .. C23)                                         *)
(***************************************************************************)
\* the inventory-poll job start_inventory_job registers for the chat
InvJob(c) ==
  [callback |-> "inventory_job", interval |-> 600, first |-> 10,
   chat_id |-> c, name |-> InvName(c)]

\* the record of the chat holds a refresh token
HasRefreshToken(us, c) == c \in DOMAIN us /\ "refresh_token" \in DOMAIN us[c]

\* the record of the chat holds at least one watch
HasAWatch(us, c) ==
  c \in DOMAIN us /\ "watches" \in DOMAIN us[c] /\ Len(wlists[us[c]["watches"]]) >= 1

C22_LogoutLeavesNothing ==
  [][logout_replied =>
       /\ lg.chat_id \notin DOMAIN users'
       /\ OrderJobs(timers', lg.chat_id) = EmptyBag
       /\ InvJobs(timers', lg.chat_id) = EmptyBag
       /\ get_jobs_by_name(timers', Str(lg.chat_id)) = EmptyBag
       /\ get_jobs_by_name(timers', InvName(lg.chat_id)) = EmptyBag]_vars

\* C23: every record of the store holds a refresh token.
C23_RecordHasRefreshToken ==
  \A c \in DOMAIN users : "refresh_token" \in DOMAIN users[c]

(***************************************************************************)
(* The store under both callbacks (C24)                                    *)
(***************************************************************************)
\* the cycle of inventory_job went through its loop and stored the watch list
InvStored(f) ==
  /\ f.pc = "done" /\ f.outcome = "completed"
  /\ \E w \in 1..Len(f.sent) : f.sent[w] # <<>>

\* C24: when the latest order cycle has saved its snapshot and the latest inventory
\* cycle has stored its watch list, whichever came last, the record of the chat holds
\* that snapshot, that watch list with the seen sets of the inventory cycle, and both
\* tokens.
C24_NoLostUpdate ==
  \A c \in Chats :
    LET j == job[c]
        f == ijob["inventory_job"]
    IN  (j.pc = "done" /\ j.outcome = "saved" /\ InvStored(f) /\ f.chat_id = c) =>
          /\ c \in DOMAIN users
          /\ {"orders_state", "watches", "refresh_token", "access_token"} \subseteq DOMAIN users[c]
          /\ users[c]["orders_state"] = j.curr_map
          /\ users[c]["watches"] = f.watches
          /\ \A w \in 1..Len(f.sent) : \A n \in 1..Len(f.sent[w]) :
                VinOf(f.sent[w][n]) \in wobjs[wlists[f.watches][w]]["seen_vins"]

\* the order cycle started while inventory_job was waiting for the sink, both are over:
\* the record holds the snapshot with the order and the watch list whose watch has seen
\* the car
C24_Witness ==
  /\ cycles = 1 /\ iruns = 1
  /\ job["u1"].pc = "done" /\ job["u1"].outcome = "saved" /\ job["u1"].inv0 = "send"
  /\ InvStored(ijob["inventory_job"])
  /\ "RN1" \in DOMAIN users["u1"]["orders_state"]
  /\ wobjs[wlists[users["u1"]["watches"]][1]]["seen_vins"] = {"A"}

(***************************************************************************)
(* Failures inside a cycle (C26 .. C29)                                    *)
(***************************************************************************)
\* C26: an order cycle that did not end by the failure of a request (the only other
\* failure in it is that of the sink) has gone through every order of the list and has
\* persisted the snapshot it collected.
C26_SinkFailureDoesNotAbort ==
  \A c \in Chats :
    LET j == job[c] IN
    (j.pc = "done" /\ j.outcome \notin {"no_user", "get_orders_failed", "details_failed"}) =>
      /\ j.i = Len(j.orders)
      /\ DOMAIN j.curr_map = {j.orders[n].referenceNumber : n \in 1..Len(j.orders)}
      /\ OrdersStateOf(users, c) = [present |-> TRUE, value |-> j.curr_map]

\* C27: an inventory cycle that entered its loop has called check_inventory for every
\* watch of the list before it is over, whatever failed for one of them.
C27_EveryWatchIsProcessed ==
  \A p \in InvProcs :
    (ijob[p].pc = "done" /\ ijob[p].watches # 0) =>
      Len(ijob[p].got) = Len(wlists[ijob[p].watches])

\* an exception left the coroutine of inventory_job: user.get on a missing record, or
\* the send that raised
InvRaised(f) == f.pc = "done" /\ f.outcome \in {"no_user", "send_failed"}

\* C28: no cycle of inventory_job ends by an exception that leaves the callback (the
\* cycles of check_orders_task all end inside its try block or its except clause).
C28_NoErrorLeavesTheJob == ~InvRaised(ijob["inventory_job"])

\* the latest order cycle of the chat ended by a request that raised for a status of
\* the 5xx range
UpstreamFailure(c) ==
  /\ job[c].pc = "done"
  /\ job[c].outcome \in {"get_orders_failed", "details_failed"}
  /\ rq[JobCaller(c)].ret.kind = "http_error"
  /\ rq[JobCaller(c)].ret.status >= 500

\* the keys of a record that hold the token pair
TokenKeys == {"access_token", "refresh_token"}

\* C29 as stated: after an order cycle that ended by an upstream failure the record of
\* the chat is the record the cycle found when it started.
C29_UpstreamFailureChangesNothing ==
  \A c \in Chats : UpstreamFailure(c) => get_user(users, c) = job[c].user0

\* C29, amended: after an order cycle that ended by an upstream failure the record of
\* the chat has the keys it had when the cycle started and, but for the token pair, the
\* values (interval, order snapshot, watches); the token pair is the one of the start
\* or a pair that a refresh made during the cycle has stored.
C29_UpstreamFailureKeepsAllButTokens ==
  \A c \in Chats :
    UpstreamFailure(c) =>
      LET now == get_user(users, c)
          was == job[c].user0
      IN  /\ DOMAIN now = DOMAIN was
          /\ \A k \in (DOMAIN was) \ TokenKeys : now[k] = was[k]
          /\ \/ \A k \in TokenKeys : now[k] = was[k]
             \/ /\ now["refresh_token"] > was["refresh_token"]
                /\ now["access_token"] = now["refresh_token"]

\* a cycle found a stored snapshot and a stale access token, refreshed the pair after a
\* 401 and then failed on a 500: the snapshot is as it was, the token pair is new
C29_Witness ==
  /\ UpstreamFailure("u1")
  /\ "orders_state" \in DOMAIN job["u1"].user0
  /\ job["u1"].user0["orders_state"] # EmptyDict
  /\ users["u1"]["orders_state"] = job["u1"].user0["orders_state"]
  /\ users["u1"]["refresh_token"] # job["u1"].user0["refresh_token"]

(***************************************************************************)
(* The lock and the durable file (C25, C30)                                *)
(***************************************************************************)
\* C25: every operation of the store runs inside the lock: a task that is reading or
\* changing the user map, or writing the files, is the task that holds the lock
C25_StoreTouchedOnlyUnderLock ==
  \A t \in Tasks : store.sop[t].pc \in {"body", "open", "dump", "replace"} => store.lock = t

\* the map a database file stands for
Stored(file) == IF file.kind = "json" THEN file.data ELSE EmptyDict

\* C30: durable writes are atomic. DB_FILE is never a cut-short file; while save is
\* writing the temp file it still is the file from before the write, and once the
\* rename is done it is the whole map of after it; the map a restart after a crash
\* reads is the whole state before the write the crash interrupted or the whole state
\* after it
C30_DurableFileIsWhole ==
  /\ store.db.kind # "partial"
  /\ \A t \in Tasks :
       /\ store.sop[t].pc \in {"dump", "replace"} => store.db = store.sop[t].db0
       /\ store.sop[t].pc \in {"unlock", "return"}
            => Stored(store.db) = Dump(users, wlists, wobjs)
  /\ store.boot.at # "none"
       => store.boot.reread \in {Stored(store.boot.db0), Stored(store.boot.target)}

\* the process died between the end of the temp file and the rename, during a save that
\* adds a watch to a stored record: the restart read the record without the watch
C30_Witness ==
  LET boot == store.boot
  IN  /\ boot.at = "replace"
      /\ store.tmp = boot.target
      /\ store.db = boot.db0
      /\ boot.db0.kind = "json"
      /\ boot.db0 # boot.target
      /\ \E c \in DOMAIN boot.target.data : "watches" \in DOMAIN boot.target.data[c]
      /\ boot.reread = boot.db0.data
      /\ \A t \in Tasks : store.sop[t].pc = "idle"

(***************************************************************************)
(* Handler input (C31, C32)                                                *)
(***************************************************************************)
\* C31: every stored polling interval is at least 5 minutes and every order timer
\* in the queue fires at an interval of at least 5 minutes: /interval with a value
\* below 5, or with no number, stores nothing and starts no timer
C31_IntervalAtLeastFive ==
  /\ \A c \in DOMAIN users : "interval" \in DOMAIN users[c] => users[c]["interval"] >= 5
  /\ \A j \in DOMAIN timers : j.callback = "check_orders_task" => j.interval >= 5 * 60

\* /interval 60 was accepted for a subscriber: the record and the timer have the new
\* interval, while the other subscriber is at the interval of its login
C31_Witness ==
  /\ lg.pc = "idle"
  /\ {"u1", "u2"} \subseteq DOMAIN users
  /\ users["u1"]["interval"] = 30
  /\ users["u2"]["interval"] = 60
  /\ get_jobs_by_name(timers, Str("u2")) = SetToBag({OrderJob("u2", 60 * 60)})
  /\ get_jobs_by_name(timers, Str("u1")) = SetToBag({OrderJob("u1", 30 * 60)})

\* an argument list of /inv_watch is malformed: an argument without exactly one '=',
\* or a price that is no integer
Malformed(args) ==
  \E i \in 1 .. Len(args) :
    \/ Len(args[i]) # 2
    \/ args[i][1] = "price" /\ args[i][2] # "40000"

\* C32: /inv_watch with malformed key=value arguments is rejected before any state
\* is changed: every step of the handler on such arguments leaves the store, the
\* watch lists and watches, and the job queue as they were
C32_MalformedChangesNothing ==
  [][\A c \in Subscribers : \A args \in {a \in LegacyArgs : Malformed(a)} :
       legacy_inv_watch_args(c, args) => UNCHANGED <<users, wlists, wobjs, timers>>]_vars

\* a subscriber who has a watch and its timer was answered that the arguments do not
\* parse: the watch list still has that one watch
C32_Witness ==
  /\ lg.reply = [text |-> "error_parsing"]
  /\ lg.chat_id = "u1"
  /\ HasAWatch(users, "u1")
  /\ Len(wlists[users["u1"]["watches"]]) = 1
  /\ get_jobs_by_name(timers, InvName("u1")) = SetToBag({InvJob("u1")})
  /\ "watches" \notin DOMAIN users["u2"]

(***************************************************************************)
(* Watches (C33, C34, C38)                                                 *)
(***************************************************************************)
\* the ids of the watches in the list of a record, in the order of the list
IdsOf(user) ==
  IF "watches" \in DOMAIN user
  THEN [k \in 1 .. Len(wlists[user["watches"]]) |-> wobjs[wlists[user["watches"]][k]]["id"]]
  ELSE <<>>

\* C33: watch ids are unique per subscriber: no two watches in the list of one
\* subscriber have the same id
C33_WatchIdsUnique ==
  \A c \in DOMAIN users :
    \A k1, k2 \in DOMAIN IdsOf(users[c]) : IdsOf(users[c])[k1] = IdsOf(users[c])[k2] => k1 = k2

\* C34: a deleted watch stays deleted and a saved edit stays saved, whatever an
\* inventory cycle in flight stores afterwards: as long as the reply to /inv_del
\* ("deleted") is the last reply, the list of the subscriber has no watch of that id;
\* as long as the reply to the save of an edit is the last reply, the watch of that id
\* in the list is the dict the edit has stored (it has a condition_mode)
C34_DeletedStaysDeleted ==
  LET user == get_user(users, lg.chat_id)
      ids == IdsOf(user)
  IN  /\ lg.reply.text = "watch_deleted" => \A k \in DOMAIN ids : ids[k] # lg.reply.id
      /\ lg.reply.text = "watch_saved" =>
           \A k \in DOMAIN ids :
             ids[k] = lg.reply.id =>
               "condition_mode" \in DOMAIN wobjs[wlists[user["watches"]][k]]

\* C38: for each watch a vehicle identifier is notified at most once: the latest
\* inventory cycle has sent no identifier twice for a watch, and none that the cycle
\* before it has sent for that watch
C38_NotifiedAtMostOnce ==
  \A i \in 1 .. Len(LatestCycle.sent) :
    LET now == LatestCycle.sent[i]
        before == IF i <= Len(prevRun.sent) THEN prevRun.sent[i] ELSE <<>>
    IN  \A a \in 1 .. Len(now) :
          "VIN" \in DOMAIN now[a] =>
            /\ \A b \in 1 .. Len(now) : VinOf(now[b]) = VinOf(now[a]) => a = b
            /\ \A b \in 1 .. Len(before) : VinOf(before[b]) # VinOf(now[a])

(***************************************************************************)
(* Refresh exchanges (C36, C37)                                            *)
(***************************************************************************)
\* C36: a call performs at most one refresh exchange, and the exchange presents the
\* refresh token the store holds for the subscriber at that moment: a step that adds a
\* POST to the history of a call finds no POST in it, and the token of the new entry
\* is the stored refresh token
C36_OneRefreshOfStoredToken ==
  [][\A c \in Callers :
       (rq[c].pc = "refresh" /\ Len(rq'[c].log) = Len(rq[c].log) + 1) =>
         /\ PostEntries(rq[c].log) = {}
         /\ rq'[c].log[Len(rq'[c].log)].token =
              DictGetOr(get_user(users, rq[c].chat_id), "refresh_token", None)]_vars

\* C37: when calls of one subscriber overlap and refresh, the access and the refresh
\* token of the store always come from the same exchange, and once no call is in
\* flight the store holds the pair the token endpoint has issued last
C37_LatestPairStored ==
  LET user == get_user(users, "u1")
  IN  /\ DictGetOr(user, "access_token", None) # None =>
           user["access_token"] = user["refresh_token"]
      /\ (nextTok > 2 /\ \A c \in OverlapCallers : rq[c].pc \in {"idle", "done"}) =>
           user["refresh_token"] = nextTok - 1

(***************************************************************************)
(* Login and logout (C35, C39, C40)                                        *)
(***************************************************************************)
\* C35: logout is final: once logout_command is over and as long as no start_job has
\* run for the chat since, a record of the chat appears in the store only by the
\* update_user of a new login_command
C35_LogoutIsFinal ==
  [][\A c \in Chats :
       (/\ lastStart[c] = None
        /\ lg.pc # "logout_reply"
        /\ c \notin DOMAIN users
        /\ c \in DOMAIN users')
         => (lg'.pc = "get_orders" /\ lg'.chat_id = c)]_vars

\* C39: timers exist only for logged-in subscribers: the queue holds a job of either
\* name for a chat only if the store holds a record with a refresh token for the chat
C39_TimersOnlyForLoggedIn ==
  \A c \in Subscribers :
    (get_jobs_by_name(timers, Str(c)) # EmptyBag \/ get_jobs_by_name(timers, InvName(c)) # EmptyBag)
      => HasRefreshToken(users, c)

\* the except clause of login_command has run: the validation (get_orders, or the edit
\* of the status message) raised
LoginFailed ==
  /\ lg.pc \in {"get_orders", "edit_text"}
  /\ lg' = IdleHandler
  /\ users' = delete_user(users, lg.chat_id)

\* C40: a failed login changes nothing: when the validation of login_command has
\* failed, the record of the chat is the one the store held before the attempt (none
\* if it held none) and the queue holds the jobs it held
C40_FailedLoginChangesNothing ==
  [][LoginFailed => (get_user(users', lg.chat_id) = lg.user0 /\ timers' = timers)]_vars

====
